---- MODULE Spec2Model ----
(***************************************************************************)
(* Chat-Privacy client: the local history store (lib/storage), the peer    *)
(* transport session (lib/webrtc + the ChatInterface handlers that drive   *)
(* it), the relay channel (lib/websocket), the message pipeline            *)
(* (lib/encryption + handleSendMessage and the onMessage handler) and the  *)
(* payloads handed to the network.                                         *)
(*                                                                         *)
(* Each component has its own next-state relation and specification        *)
(* (SpecHistory, SpecPeer, SpecRelay, SpecBackoff, SpecChat, SpecPayload); *)
(* Spec is their interleaving.                                             *)
(***************************************************************************)
EXTENDS Integers, Sequences, FiniteSets, TLC

(***************************************************************************)
(* Bounds and value universes                                              *)
(***************************************************************************)

\* Largest epoch-ms timestamp a message may carry (timestamps are 1..MaxTs).
MaxTs == 3

\* The retention cap of one conversation. The source keeps the last 5000
\* messages; the model keeps the last RetentionCap so that eviction happens
\* within the explored runs.
RetentionCap == 3

\* Offers made in a run, by the local side (each connectToUser creates one)
\* and by the peers.
MaxOffers == 2

\* Pending signaling items the directory holds for the local user.
MaxInbox == 1

\* WebSocket objects a ChatWebSocket creates in one run.
MaxSockets == 4

\* Data-channel frames in flight.
MaxWire == 1

\* Messages the local store takes in a run of the message pipeline.
MaxMessages == 2

\* Messages on screen.
MaxShown == 3

\* Signaling items of one poll response.
MaxBatch == 3

\* Payloads kept in the record of what was handed to the network.
MaxOutbound == 2

\* The local identity and the remote parties.
Me == "me"
Peers == {"alice", "bob"}
Users == {Me} \cup Peers

\* getUserData() returns null when no identity is stored.
NoUser == "null"

MsgIds == {"m1", "m2", "m3", "m4"}
Timestamps == 1..MaxTs
Envelopes == {"c1", "c2"}

\* StoredMessage.decrypted is optional.
NoPlain == "undefined"
Plaintexts == {NoPlain, "hello"}

(***************************************************************************)
(* lib/storage: StoredMessage, ChatHistory                                 *)
(***************************************************************************)

StoredMessage ==
    [id : MsgIds, from : Users, to : Users, encrypted : Envelopes,
     timestamp : Timestamps, decrypted : Plaintexts]

\* The local echo of a sent message (handleSendMessage, tempMessage).
Echo(peer, id, ts) ==
    [id |-> id, from |-> Me, to |-> peer, encrypted |-> "c1",
     timestamp |-> ts, decrypted |-> "hello"]

\* A message as received from a peer, stored without cached plaintext.
Inbound(peer, id, ts) ==
    [id |-> id, from |-> peer, to |-> Me, encrypted |-> "c2",
     timestamp |-> ts, decrypted |-> NoPlain]

\* The messages handed to the store: the local echoes of the chat with alice,
\* and inbound messages of alice and of bob that carry an id already used by
\* an echo (ids are Date.now() strings, so the two can collide).
ChatMessages ==
    {Echo("alice", i, t) : <<i, t>> \in MsgIds \X Timestamps}
    \cup {Inbound(p, "m1", t) : <<p, t>> \in Peers \X Timestamps}

VARIABLES
    userName,      \* localStorage[USERNAME] (with the key pair): Me or NoUser
    hasMessages,   \* localStorage[MESSAGES] is present
    history,       \* JSON.parse(localStorage[MESSAGES]): peer -> StoredMessage[]
    lastCall       \* the last storage call and what it did

histVars == <<userName, hasMessages, history, lastCall>>

VARIABLES
    mgrs,          \* the WebRTCManager objects: fields and the state of their RTCPeerConnection
    created,       \* how many WebRTCManager objects were constructed
    webrtc,        \* the manager held by the component state (useState webrtc)
    pending,       \* the click handler suspended at an await, if any
    offers,        \* every offer created so far: addressee, creating manager, delivery
    inbox,         \* /api/webrtc/pending-messages/<me>: items not polled yet
    lastSend,      \* the last WebRTCManager.send: how it returned, frames it handed over
    currentChat    \* the open conversation (useState currentChat), NoPeer for null

peerVars == <<mgrs, created, webrtc, pending, offers, inbox, lastSend, currentChat>>

\* lib/websocket: the WebSocket objects a ChatWebSocket created, the one this.ws
\* points at (0: null), reconnectAttempts, the pending setTimeout callbacks,
\* the callback last invoked, and whether the owner's last call was disconnect().
\* lastDelay is the delay of the reconnection scheduled last since a socket
\* opened (0: none).
VARIABLES sockets, ws, reconnectAttempts, timers, notified, disconnected, lastDelay
relayVars ==
    <<sockets, ws, reconnectAttempts, timers, notified, disconnected, lastDelay>>

VARIABLES
    now,           \* the millisecond Date.now() returns
    sending,       \* the handleSendMessage call suspended at its fetch, if any
    wire,          \* data-channel frames sent and not yet delivered, with the peer they go to
    peerHistory,   \* the history store of each remote endpoint
    lastChat       \* the last message handler that ran and what the user saw of it

chatVars == <<now, sending, wire, peerHistory, lastChat>>

\* What the endpoint has handed to the network: for each payload the channel
\* it went out on and its body before JSON.stringify.
\* sendResult is what the caller of the last ChatWebSocket.send got back.
VARIABLES outbound, sendResult
netVars == <<outbound, sendResult>>

\* The message list on screen (the messages state of ChatInterface), in the
\* order it is rendered.
VARIABLES messages
viewVars == <<messages>>

\* The envelope encryptMessage returned last, with the call's arguments, and
\* what decryptMessage returned for it.
VARIABLES box
boxVars == <<box>>

\* How the registration of initialize ended, "none" while it has not;
\* isMounted of the mount effect; and the webrtc state of the render whose
\* mount effect ran, which is the webrtc the effect's cleanup refers to.
VARIABLES registration, isMounted, effectWebrtc
mountVars == <<registration, isMounted, effectWebrtc>>

\* messageHandlers of a ChatWebSocket; for the frame dispatched last its type
\* with the handlers registered when it arrived, and how often each handler
\* was invoked with it.
VARIABLES messageHandlers, dispatched, invoked
dispatchVars == <<messageHandlers, dispatched, invoked>>

\* The calls of pollSignalingMessages whose loop is under way, in the order
\* they got their responses: the items of each response and how many of them
\* were handled; and the items applied so far, as <<call, position>>.
VARIABLES batches, applied
pollVars == <<batches, applied>>

\* The variables of the components that stand by themselves.
sideVars == <<boxVars, mountVars, dispatchVars, pollVars>>

vars ==
    <<histVars, peerVars, relayVars, chatVars, netVars, viewVars, sideVars>>

\* An empty ChatHistory object, {}.
EmptyHistory == [u \in {} |-> <<>>]

\* history[username] || []
Conversation(h, username) ==
    IF username \in DOMAIN h THEN h[username] ELSE <<>>

\* const otherUser = message.from === userData.username ? message.to : message.from
OtherUser(message, user) ==
    IF message.from = user THEN message.to ELSE message.from

\* Exists with the duplicate check lost: no stored message ever matches.
ExistsNever(conv, id) == FALSE

\* history[otherUser].some(m => m.id === message.id)
Exists(conv, id) == \E i \in 1..Len(conv) : conv[i].id = id

\* Insert x into a sequence sorted by timestamp, after every element that does
\* not compare greater (the comparator is a.timestamp - b.timestamp and
\* Array.prototype.sort is stable).
RECURSIVE InsertByTimestamp(_, _)
InsertByTimestamp(sorted, x) ==
    IF sorted = <<>> THEN <<x>>
    ELSE IF x.timestamp - Head(sorted).timestamp < 0
         THEN <<x>> \o sorted
         ELSE <<Head(sorted)>> \o InsertByTimestamp(Tail(sorted), x)

\* SortByTimestamp with the sort lost: messages stay in arrival order.
SortByArrival(conv) == conv

\* conv.sort((a, b) => a.timestamp - b.timestamp): a stable insertion sort.
RECURSIVE SortByTimestamp(_)
SortByTimestamp(conv) ==
    IF conv = <<>> THEN <<>>
    ELSE InsertByTimestamp(SortByTimestamp(SubSeq(conv, 1, Len(conv) - 1)),
                           conv[Len(conv)])

\* SliceLast cutting at the wrong end, conv.slice(0, n): the newest are dropped.
SliceFirst(conv, n) ==
    IF Len(conv) > n THEN SubSeq(conv, 1, n) ELSE conv

\* conv.slice(-n)
SliceLast(conv, n) ==
    IF Len(conv) > n THEN SubSeq(conv, Len(conv) - n + 1, Len(conv)) ELSE conv

\* The conversation after push, sort and the retention cut.
Pushed(conv, message) ==
    LET sorted == SortByTimestamp(Append(conv, message))
    IN  IF Len(sorted) > RetentionCap THEN SliceLast(sorted, RetentionCap)
        ELSE sorted

\* A write that keeps the written conversation only.
WithConversationAlone(h, key, conv) == [u \in {key} |-> conv]

\* history with history[key] = conv.
WithConversation(h, key, conv) ==
    [u \in DOMAIN h \cup {key} |-> IF u = key THEN conv ELSE h[u]]

\* delete history[username]
WithoutConversation(h, username) ==
    [u \in DOMAIN h \ {username} |-> h[u]]

\* The record kept of a storage call: the function, what it did ("stored",
\* "evicted" when the retention cut dropped a message, "exists", "noUser",
\* "removed") and its argument.
Call(fn, outcome, message, username) ==
    [fn |-> fn, outcome |-> outcome, message |-> message, username |-> username]

NoMessage ==
    [id |-> "", from |-> "", to |-> "", encrypted |-> "", timestamp |-> 0,
     decrypted |-> NoPlain]

HistInit ==
    /\ userName = Me
    /\ hasMessages = FALSE
    /\ history = EmptyHistory
    /\ lastCall = Call("none", "none", NoMessage, "")

\* saveUserData
SaveUserData ==
    /\ userName = NoUser
    /\ userName' = Me
    /\ lastCall' = Call("saveUserData", "stored", NoMessage, Me)
    /\ UNCHANGED <<hasMessages, history>>

\* clearUserData: removes USERNAME, PUBLIC_KEY, PRIVATE_KEY and CURRENT_CHAT.
ClearUserData ==
    /\ userName # NoUser
    /\ userName' = NoUser
    /\ lastCall' = Call("clearUserData", "removed", NoMessage, "")
    /\ UNCHANGED <<hasMessages, history>>

\* saveMessageToHistory writing over a stored message that has the same id.
SaveMessageToHistoryUpsert(message) ==
    LET otherUser == OtherUser(message, userName)
        conv == Conversation(history, otherUser)
        kept == SelectSeq(conv, LAMBDA m : m.id # message.id)
    IN  IF userName = NoUser
        THEN /\ lastCall' = Call("saveMessageToHistory", "noUser", message, "")
             /\ UNCHANGED <<userName, hasMessages, history>>
        ELSE /\ history' = WithConversation(history, otherUser, Pushed(kept, message))
             /\ hasMessages' = TRUE
             /\ lastCall' = Call("saveMessageToHistory",
                                 IF Exists(conv, message.id) THEN "exists"
                                 ELSE IF Len(conv) + 1 > RetentionCap THEN "evicted"
                                 ELSE "stored",
                                 message, otherUser)
             /\ UNCHANGED userName

\* saveMessageToHistory(message). localStorage.setItem is taken to succeed; when
\* it throws the catch block leaves the store as the "exists" branch does.
SaveMessageToHistory(message) ==
    LET otherUser == OtherUser(message, userName)
        conv == Conversation(history, otherUser)
    IN  IF userName = NoUser
        THEN /\ lastCall' = Call("saveMessageToHistory", "noUser", message, "")
             /\ UNCHANGED <<userName, hasMessages, history>>
        ELSE IF Exists(conv, message.id)
        THEN /\ lastCall' = Call("saveMessageToHistory", "exists", message, otherUser)
             /\ UNCHANGED <<userName, hasMessages, history>>
        ELSE /\ history' = WithConversation(history, otherUser, Pushed(conv, message))
             /\ hasMessages' = TRUE
             /\ lastCall' = Call("saveMessageToHistory",
                                 IF Len(conv) + 1 > RetentionCap THEN "evicted"
                                 ELSE "stored",
                                 message, otherUser)
             /\ UNCHANGED userName

\* getChatHistory(username)
GetChatHistory(username) ==
    IF ~hasMessages THEN <<>> ELSE Conversation(history, username)

\* clearChatHistory(username)
ClearChatHistory(username) ==
    /\ hasMessages
    /\ history' = WithoutConversation(history, username)
    /\ lastCall' = Call("clearChatHistory", "removed", NoMessage, username)
    /\ UNCHANGED <<userName, hasMessages>>

\* clearAllChatHistory
ClearAllChatHistory ==
    /\ hasMessages' = FALSE
    /\ history' = EmptyHistory
    /\ lastCall' = Call("clearAllChatHistory", "removed", NoMessage, "")
    /\ UNCHANGED userName

(***************************************************************************)
(* lib/encryption                                                          *)
(***************************************************************************)

\* generateKeyPair(): the key pair of a user.
PublicKey(u) == [kind |-> "publicKey", of |-> u]
PrivateKey(u) == [kind |-> "privateKey", of |-> u]

\* keyToString(key): the base64 text of some bytes.
KeyToString(key) == [base64 |-> key]

\* stringToKey(keyString): the bytes a base64 text stands for.
StringToKey(keyString) == keyString.base64

\* The nonces randombytes_buf can return.
Nonces == {"n1"}

\* sodium.from_string(str): the UTF-8 bytes of a text.
from_string(str) == [utf8 |-> str]

\* sodium.to_string(bytes): the text some UTF-8 bytes stand for.
to_string(bytes) == bytes.utf8

\* A key derivation that tells the two sides of a box apart.
BoxKeyOrdered(publicKey, privateKey) == <<publicKey.of, privateKey.of>>

\* The key crypto_box derives from one side's public and the other side's
\* private key: the same for (pk(a), sk(b)) and (pk(b), sk(a)).
BoxKey(publicKey, privateKey) == {publicKey.of, privateKey.of}

\* sodium.crypto_box(message, nonce, publicKey, privateKey)
CryptoBox(message, nonce, publicKey, privateKey) ==
    [plain |-> message, nonce |-> nonce, key |-> BoxKey(publicKey, privateKey)]

\* Ciphertext bytes no key opens.
Garbled == [plain |-> from_string(""), nonce |-> "", key |-> {}]

\* sodium.crypto_box_open(ciphertext, nonce, publicKey, privateKey): the
\* message, or a throw when nonce or keys are not those of the box.
CryptoBoxOpen(ciphertext, nonce, publicKey, privateKey) ==
    IF ciphertext.nonce = nonce /\ ciphertext.key = BoxKey(publicKey, privateKey)
    THEN [ok |-> TRUE, value |-> ciphertext.plain]
    ELSE [ok |-> FALSE, value |-> NoPlain]

\* An encryptMessage that encodes the message without boxing it.
EncryptMessageEncoded(message, recipientPublicKey, senderPrivateKey, senderPublicKey, nonce) ==
    [ciphertext |-> KeyToString(message),
     nonce |-> KeyToString(nonce),
     publicKey |-> KeyToString(senderPublicKey)]

\* encryptMessage(message, recipientPublicKey, senderPrivateKey,
\* senderPublicKey), nonce being the random nonce it draws.
EncryptMessage(message, recipientPublicKey, senderPrivateKey, senderPublicKey, nonce) ==
    [ciphertext |-> KeyToString(CryptoBox(from_string(message), nonce,
                                          recipientPublicKey, senderPrivateKey)),
     nonce |-> KeyToString(nonce),
     publicKey |-> KeyToString(senderPublicKey)]

\* decryptMessage(encrypted, senderPublicKey, recipientPrivateKey): the
\* plaintext, or ok = FALSE for the Error it throws.
DecryptMessage(encrypted, senderPublicKey, recipientPrivateKey) ==
    LET decrypted == CryptoBoxOpen(StringToKey(encrypted.ciphertext),
                         StringToKey(encrypted.nonce),
                         senderPublicKey, recipientPrivateKey)
    IN  IF decrypted.ok
        THEN [ok |-> TRUE, value |-> to_string(decrypted.value)]
        ELSE decrypted

\* The texts encryptMessage is given: message texts, the empty text, and a
\* text that reads like the failure text of the history load.
MessageStrings == {"hello", "bye", "", "[Failed to decrypt]"}

\* No call of encryptMessage yet.
BoxInit == box = [stage |-> "none"]

\* encryptMessage(message, R.publicKey, S.privateKey, S.publicKey) for the key
\* pairs of sender and recipient.
Encrypt(message, sender, recipient, nonce) ==
    box' = [stage |-> "encrypted", message |-> message, sender |-> sender,
            recipient |-> recipient,
            encrypted |-> EncryptMessage(message, PublicKey(recipient),
                              PrivateKey(sender), PublicKey(sender), nonce)]

\* decryptMessage(encrypted, stringToKey(encrypted.publicKey), privateKey) by
\* the holder of a private key, as the receiving handlers call it.
Decrypt(by) ==
    /\ box.stage = "encrypted"
    /\ box' = [stage |-> "decrypted", message |-> box.message,
               sender |-> box.sender, recipient |-> box.recipient,
               encrypted |-> box.encrypted, by |-> by,
               decrypted |-> DecryptMessage(box.encrypted,
                                 StringToKey(box.encrypted.publicKey),
                                 PrivateKey(by))]

\* userData of an endpoint: the keys are kept as base64 text.
UserData(u) ==
    [username |-> u, publicKey |-> KeyToString(PublicKey(u)),
     privateKey |-> KeyToString(PrivateKey(u))]

\* if (msg.decrypted): a stored plaintext that is there and not empty.
HasPlaintext(msg) == msg.decrypted # NoPlain /\ msg.decrypted # ""

\* What is shown for a stored message that cannot be decrypted.
FailedToDecrypt == "[Failed to decrypt]"

\* A history load that shows stored messages as they are.
RestoreAsStored(msg) == msg

\* The body of history.map in the history load: a message with its plaintext
\* is taken as it is, one without is decrypted with the public key of its
\* envelope; when that throws, the message gets the failure text.
Restore(msg) ==
    IF HasPlaintext(msg) THEN msg
    ELSE LET decrypted == DecryptMessage(msg.encrypted,
                              StringToKey(msg.encrypted.publicKey),
                              StringToKey(UserData(Me).privateKey))
         IN  [msg EXCEPT !.decrypted = IF decrypted.ok THEN decrypted.value
                                       ELSE FailedToDecrypt]

\* The history load of handleStartChat, of the online-user onClick and of
\* initialize: what setMessages gets for the conversation with username.
LoadHistory(username) ==
    [i \in DOMAIN GetChatHistory(username) |-> Restore(GetChatHistory(username)[i])]

(***************************************************************************)
(* lib/webrtc: WebRTCManager, and the ChatInterface handlers that drive it *)
(***************************************************************************)

\* The WebRTCManager objects: the one installed at start-up and those
\* handleStartChat constructs, each construction being followed by an offer.
ManagerIds == 1..MaxOffers

\* remoteUsername: string | null
NoPeer == "null"

\* No remote description applied.
NoRemote == [kind |-> "none", from |-> NoPeer, neg |-> 0]

\* new WebRTCManager(...): no peer connection, no data channel, no remote user.
\* signaling, conn, localNeg, remote, orphans and candidates describe the
\* RTCPeerConnection behind peerConnection and mean nothing while pc is FALSE;
\* wasClosed records that close() was called on the object.
Constructed ==
    [exists |-> TRUE, pc |-> FALSE, wasClosed |-> FALSE, signaling |-> "stable",
     conn |-> "new", localNeg |-> 0, remote |-> NoRemote, orphans |-> 0,
     candidates |-> {}, dataChannel |-> "null", remoteUsername |-> NoPeer]

\* A WebRTCManager slot nothing was constructed in yet.
Unconstructed == [Constructed EXCEPT !.exists = FALSE]

\* initialize(): this.peerConnection = new RTCPeerConnection(...)
Initialize(m) ==
    [m EXCEPT !.pc = TRUE, !.signaling = "stable", !.conn = "new", !.localNeg = 0,
              !.remote = NoRemote, !.orphans = 0, !.candidates = {}]

\* close(): closes and forgets the data channel and the peer connection (which
\* closes every channel created on it), forgets the remote user.
Close(m) ==
    [m EXCEPT !.dataChannel = "null", !.pc = FALSE, !.signaling = "stable",
              !.conn = "new", !.localNeg = 0, !.remote = NoRemote, !.orphans = 0,
              !.candidates = {}, !.remoteUsername = NoPeer, !.wasClosed = TRUE]

\* isConnected()
IsConnected(m) ==
    m.dataChannel = "open" /\ m.pc /\ m.conn = "connected"

\* The data channel this.dataChannel pointed at stays on the peer connection,
\* unclosed, when the field is overwritten.
Orphaned(m) ==
    IF m.dataChannel \in {"connecting", "open"} THEN m.orphans + 1 ELSE m.orphans

\* connectToUser(remoteUsername), neg being the offer it creates:
\* initialize() if there is no peer connection, a new data channel, createOffer
\* and setLocalDescription (which rejects in have-remote-offer).
ConnectToUser(m, remoteUsername, neg) ==
    LET m1 == IF ~m.pc THEN Initialize(m) ELSE m
        m2 == [m1 EXCEPT !.remoteUsername = remoteUsername,
                         !.orphans = Orphaned(m1),
                         !.dataChannel = "connecting"]
    IN  IF m2.signaling = "have-remote-offer" THEN m2
        ELSE [m2 EXCEPT !.signaling = "have-local-offer", !.localNeg = neg]

\* The offer connectToUser made and sendOffer posted. (An offer the directory
\* did not take is an offer that is never answered.)
Offer(to, mgr) ==
    [from |-> Me, to |-> to, mgr |-> mgr, live |-> TRUE, status |-> "delivered"]

\* An offer a peer made and posted for the local user.
PeerOffer(from) ==
    [from |-> from, to |-> Me, mgr |-> 0, live |-> TRUE, status |-> "posted"]

\* The offers of a manager whose peer connection was closed are offers of a
\* connection that is gone.
Retire(offs, mgr) ==
    [n \in 1..Len(offs) |-> IF offs[n].mgr = mgr THEN [offs[n] EXCEPT !.live = FALSE]
                            ELSE offs[n]]

\* handleOffer(offer, fromUsername). rollback: the browser rolls a pending
\* local offer back when a remote offer is applied; without it
\* setRemoteDescription rejects in have-local-offer.
HandleOffer(m, fromUsername, neg, rollback) ==
    LET m1 == IF ~m.pc THEN Initialize(m) ELSE m
        m2 == [m1 EXCEPT !.remoteUsername = fromUsername]
    IN  IF m2.signaling = "have-local-offer" /\ ~rollback THEN m2
        ELSE [m2 EXCEPT !.signaling = "stable", !.localNeg = 0,
                        !.remote = [kind |-> "offer", from |-> fromUsername, neg |-> neg]]

\* The users handleOffer(offer, fromUsername) posts an answer to through
\* sendAnswer: fromUsername once, unless setRemoteDescription rejected.
AnswersPosted(m, fromUsername, rollback) ==
    IF m.pc /\ m.signaling = "have-local-offer" /\ ~rollback THEN <<>>
    ELSE <<fromUsername>>

\* handleAnswer(answer): throws without a peer connection; setRemoteDescription
\* rejects an answer unless a local offer is pending.
HandleAnswer(m, msg) ==
    IF ~m.pc \/ m.signaling # "have-local-offer" THEN m
    ELSE [m EXCEPT !.signaling = "stable",
                   !.remote = [kind |-> "answer", from |-> msg.from, neg |-> msg.neg]]

\* handleIceCandidate(candidate): throws without a peer connection;
\* addIceCandidate rejects while no remote description is set.
HandleIceCandidate(m, msg) ==
    IF ~m.pc \/ m.remote.kind = "none" THEN m
    ELSE [m EXCEPT !.candidates = @ \cup {<<msg.from, msg.neg>>}]

\* The body of the loop of pollSignalingMessages for one pending item: the
\* handler of its message_type runs on the manager; what it throws is caught
\* and logged.
HandleSignaling(m, msg, rollback) ==
    IF msg.type = "offer" THEN HandleOffer(m, msg.from, msg.neg, rollback)
    ELSE IF msg.type = "answer" THEN HandleAnswer(m, msg)
    ELSE HandleIceCandidate(m, msg)

RECURSIVE HandleAll(_, _, _)
\* The loop of pollSignalingMessages over the items of one response, in order.
HandleAll(m, items, rollback) ==
    IF items = <<>> THEN m
    ELSE HandleAll(HandleSignaling(m, Head(items), rollback), Tail(items),
                   rollback)

\* No click handler is suspended.
NoPending == [kind |-> "none", mgr |-> 0, new |-> 0, user |-> NoPeer]

\* A signaling item as the directory hands it out; neg names the offer it
\* carries or the local offer an answer or candidate was made for.
Item(type, from, neg) == [type |-> type, from |-> from, neg |-> neg]

\* How a send(message) call ended and how many frames it handed to the channel.
SendResult(outcome, frames) == [outcome |-> outcome, frames |-> frames]

PeerInit ==
    /\ mgrs = [i \in ManagerIds |-> IF i = 1 THEN Initialize(Constructed)
                                   ELSE Unconstructed]
    /\ created = 1
    /\ webrtc = 1
    /\ pending = NoPending
    /\ offers = <<>>
    /\ inbox = <<>>
    /\ lastSend = SendResult("none", 0)
    /\ currentChat = NoPeer

\* The part of handleStartChat and of the online-user onClick from
\* connectToUser on: the offer is created on manager mgr and posted.
StartNegotiation(mgr, user) ==
    /\ mgrs' = [mgrs EXCEPT ![mgr] = ConnectToUser(@, user, Len(offers) + 1)]
    /\ offers' = IF mgrs'[mgr].localNeg = Len(offers) + 1
                 THEN Append(offers, Offer(user, mgr))
                 ELSE offers

\* handleStartChat with recipientUsername = user, up to its first await. A
\* connected manager is closed and a new one constructed and initialized;
\* otherwise connectToUser is called at once.
HandleStartChat(user) ==
    /\ pending.kind = "none"
    /\ Len(offers) < MaxOffers
    /\ IF IsConnected(mgrs[webrtc])
       THEN /\ mgrs' = [mgrs EXCEPT ![webrtc] = Close(@),
                                    ![created + 1] = Initialize(Constructed)]
            /\ created' = created + 1
            /\ offers' = Retire(offers, webrtc)
            /\ pending' = [kind |-> "startChat", mgr |-> webrtc,
                           new |-> created + 1, user |-> user]
            /\ UNCHANGED <<webrtc, currentChat, messages>>
       ELSE /\ currentChat' = user
            /\ StartNegotiation(webrtc, user)
            /\ messages' = LoadHistory(user)
            /\ UNCHANGED <<created, webrtc, pending>>
    /\ UNCHANGED <<inbox, lastSend>>

\* handleStartChat after await newManager.initialize(): setWebrtc(newManager),
\* then webrtc.connectToUser(...) on the manager the handler closed over.
StartChatResume ==
    /\ pending.kind = "startChat"
    /\ webrtc' = pending.new
    /\ currentChat' = pending.user
    /\ StartNegotiation(pending.mgr, pending.user)
    /\ messages' = LoadHistory(pending.user)
    /\ pending' = NoPending
    /\ UNCHANGED <<created, inbox, lastSend>>

\* The online-user button's onClick, up to its first await: a connected
\* manager is closed and initialized again.
OnlineUserClick(user) ==
    /\ pending.kind = "none"
    /\ Len(offers) < MaxOffers
    /\ currentChat' = user
    /\ IF IsConnected(mgrs[webrtc])
       THEN /\ mgrs' = [mgrs EXCEPT ![webrtc] = Initialize(Close(@))]
            /\ offers' = Retire(offers, webrtc)
            /\ pending' = [kind |-> "click", mgr |-> webrtc, new |-> webrtc,
                           user |-> user]
            /\ UNCHANGED messages
       ELSE /\ StartNegotiation(webrtc, user)
            /\ messages' = LoadHistory(user)
            /\ UNCHANGED pending
    /\ UNCHANGED <<created, webrtc, inbox, lastSend>>

\* The onClick after await webrtc.initialize(): webrtc.connectToUser(username).
ClickResume ==
    /\ pending.kind = "click"
    /\ StartNegotiation(pending.mgr, pending.user)
    /\ messages' = LoadHistory(pending.user)
    /\ pending' = NoPending
    /\ UNCHANGED <<created, webrtc, inbox, lastSend, currentChat>>

\* pollSignalingMessages handling the next pending item on the installed
\* manager; whatever a handler throws is caught and logged.
PollSignalingMessages(rollback) ==
    /\ inbox # <<>>
    /\ mgrs' = [mgrs EXCEPT ![webrtc] = HandleSignaling(@, Head(inbox), rollback)]
    /\ inbox' = Tail(inbox)
    /\ UNCHANGED <<created, webrtc, pending, offers, lastSend, currentChat, messages>>

\* The addressee of a delivered offer answers it.
PeerAnswers(neg) ==
    /\ offers[neg].status = "delivered"
    /\ Len(inbox) < MaxInbox
    /\ offers' = [offers EXCEPT ![neg].status = "answered"]
    /\ inbox' = Append(inbox, Item("answer", offers[neg].to, neg))
    /\ UNCHANGED <<mgrs, created, webrtc, pending, lastSend, currentChat, messages>>

\* A peer that answered sends a connectivity candidate.
PeerSendsCandidate(neg) ==
    /\ offers[neg].status = "answered"
    /\ Len(inbox) < MaxInbox
    /\ offers' = [offers EXCEPT ![neg].status = "candidate"]
    /\ inbox' = Append(inbox, Item("ice-candidate", offers[neg].to, neg))
    /\ UNCHANGED <<mgrs, created, webrtc, pending, lastSend, currentChat, messages>>

\* A peer starts a negotiation of its own.
PeerOffers(peer) ==
    /\ Len(offers) < MaxOffers
    /\ Len(inbox) < MaxInbox
    /\ offers' = Append(offers, PeerOffer(peer))
    /\ inbox' = Append(inbox, Item("offer", peer, Len(offers) + 1))
    /\ UNCHANGED <<mgrs, created, webrtc, pending, lastSend, currentChat, messages>>

\* The directory hands out, in the order they reached it, an offer, an answer
\* or a candidate of peer from for the negotiation the local user has with it.
SignalingArrives(type, from) ==
    /\ Len(inbox) < MaxBatch
    /\ inbox' = Append(inbox, Item(type, from, 1))
    /\ UNCHANGED <<mgrs, created, webrtc, pending, offers, lastSend, currentChat, messages>>

\* The manager after handleStartChat(q) posted its offer, q not having
\* answered yet.
OfferingTo(q) == ConnectToUser(Initialize(Constructed), q, 1)

\* The peer session waiting for the answer of some peer.
PeerOfferingInit ==
    \E q \in Peers :
       /\ mgrs = [i \in ManagerIds |-> IF i = 1 THEN OfferingTo(q) ELSE Unconstructed]
       /\ created = 1
       /\ webrtc = 1
       /\ pending = NoPending
       /\ offers = <<Offer(q, 1)>>
       /\ inbox = <<>>
       /\ lastSend = SendResult("none", 0)
       /\ currentChat = q

\* The applied descriptions belong together: the remote one is a peer's offer
\* that was answered, or the answer to an offer of this very peer connection.
DescriptionsMatch(mgr) ==
    LET m == mgrs[mgr]
    IN  \/ m.remote.kind = "offer"
        \/ /\ m.remote.kind = "answer"
           /\ offers[m.remote.neg].mgr = mgr
           /\ offers[m.remote.neg].live

\* The handshake of a peer connection is complete and nothing came of it yet.
Negotiated(m) ==
    m.exists /\ m.pc /\ m.signaling = "stable" /\ m.remote.kind # "none"
    /\ m.conn = "new"

\* The transport comes up: connectionState "connected", the channels open
\* (onopen). On the answering side the peer's channel arrives (ondatachannel)
\* and setupDataChannel makes it this.dataChannel.
TransportEstablished(mgr) ==
    /\ Negotiated(mgrs[mgr])
    /\ DescriptionsMatch(mgr)
    /\ LET m == mgrs[mgr]
       IN  mgrs' = [mgrs EXCEPT ![mgr] =
                      IF m.remote.kind = "offer"
                      THEN [m EXCEPT !.conn = "connected", !.orphans = Orphaned(m),
                                     !.dataChannel = "open"]
                      ELSE [m EXCEPT !.conn = "connected",
                                     !.dataChannel = IF @ = "connecting" THEN "open"
                                                     ELSE @]]
    /\ UNCHANGED <<created, webrtc, pending, offers, inbox, lastSend, currentChat, messages>>

\* Connectivity is never found: connectionState "failed".
TransportFails(mgr) ==
    /\ Negotiated(mgrs[mgr])
    /\ mgrs' = [mgrs EXCEPT ![mgr].conn = "failed"]
    /\ UNCHANGED <<created, webrtc, pending, offers, inbox, lastSend, currentChat, messages>>

\* An established transport is lost: the channels close (onclose).
ChannelDrops(mgr) ==
    /\ mgrs[mgr].pc
    /\ mgrs[mgr].conn = "connected"
    /\ mgrs' = [mgrs EXCEPT ![mgr] =
                  [@ EXCEPT !.conn = "failed", !.orphans = 0,
                            !.dataChannel = IF @ = "null" THEN "null" ELSE "closed"]]
    /\ UNCHANGED <<created, webrtc, pending, offers, inbox, lastSend, currentChat, messages>>

\* A send that drops the message silently when the channel is not open.
ChannelSendSilent(dataChannel) ==
    IF dataChannel # "null" /\ dataChannel = "open"
    THEN SendResult("returned", 1)
    ELSE SendResult("returned", 0)

\* send(message) on a data channel in the given state ("null": no channel):
\* dataChannel.send(...) when it is open, else throw new Error(...).
ChannelSend(dataChannel) ==
    IF dataChannel # "null" /\ dataChannel = "open"
    THEN SendResult("returned", 1)
    ELSE SendResult("threw", 0)

\* send(message) on the installed manager.
Send ==
    /\ lastSend' = ChannelSend(mgrs[webrtc].dataChannel)
    /\ UNCHANGED <<mgrs, created, webrtc, pending, offers, inbox, currentChat, messages>>

\* Calls of pollSignalingMessages in a run.
MaxPolls == 2

\* No poll has got a response.
PollInit ==
    /\ batches = <<>>
    /\ applied = <<>>

\* A call of pollSignalingMessages, started by the interval timer or by the
\* effect, gets its response: the pending items, which the directory hands
\* out once. Its loop starts.
PollResponds ==
    /\ Len(batches) < MaxPolls
    /\ inbox # <<>>
    /\ batches' = Append(batches, [items |-> inbox, handled |-> 0])
    /\ inbox' = <<>>
    /\ UNCHANGED <<mgrs, created, webrtc, pending, offers, lastSend, currentChat,
                   messages, applied>>

\* The loop of call b is through with its next item: the awaited handler has
\* run on the installed manager. Nothing makes the loops of two calls take
\* turns.
PollHandles(b, rollback) ==
    /\ batches[b].handled < Len(batches[b].items)
    /\ mgrs' = [mgrs EXCEPT ![webrtc] =
                  HandleSignaling(@, batches[b].items[batches[b].handled + 1],
                                  rollback)]
    /\ batches' = [batches EXCEPT ![b].handled = @ + 1]
    /\ applied' = Append(applied, <<b, batches[b].handled + 1>>)
    /\ UNCHANGED <<created, webrtc, pending, offers, inbox, lastSend, currentChat,
                   messages>>

(***************************************************************************)
(* ChatInterface: handleSendMessage and the manager.onMessage handler      *)
(***************************************************************************)

\* Date.now().toString()
DateString(t) == ToString(t)

\* The object handleSendMessage hands to webrtc.send.
EncryptedMessageFrame(id, from, to, encrypted, timestamp) ==
    [type |-> "encrypted_message", id |-> id, from |-> from, to |-> to,
     encrypted |-> encrypted, timestamp |-> timestamp]

\* What user `from` puts on the channel for user `to` when sending text at
\* millisecond t.
SentFrame(from, to, text, nonce, t) ==
    EncryptedMessageFrame(DateString(t), from, to,
        EncryptMessage(text, PublicKey(to), StringToKey(UserData(from).privateKey),
                       StringToKey(UserData(from).publicKey), nonce),
        t)

\* A message without its plaintext, as the onMessage handler builds it from
\* the received data: id and timestamp fall back to Date.now() when missing.
ReceivedMessage(data, t) ==
    [id |-> IF data.id # "" THEN data.id ELSE DateString(t),
     from |-> data.from, to |-> data.to, encrypted |-> data.encrypted,
     timestamp |-> IF data.timestamp # 0 THEN data.timestamp ELSE t]

\* The decryption of the onMessage handler at endpoint self: the sender's
\* public key is the one the envelope carries.
HandlerDecrypt(data, self) ==
    DecryptMessage(data.encrypted, StringToKey(data.encrypted.publicKey),
                   StringToKey(UserData(self).privateKey))

\* saveMessageToHistory(message) at the endpoint of user, as a function of
\* its store.
SavedHistory(h, user, message) ==
    LET otherUser == OtherUser(message, user)
        conv == Conversation(h, otherUser)
    IN  IF Exists(conv, message.id) THEN h
        ELSE WithConversation(h, otherUser, Pushed(conv, message))

\* The onMessage handler at endpoint self as a function of its store: an
\* encrypted_message that decrypts is saved with its plaintext; anything else,
\* a decryption failure included, leaves the store as it is.
HandledHistory(h, self, data, t) ==
    IF data.type = "encrypted_message" /\ HandlerDecrypt(data, self).ok
    THEN SavedHistory(h, self,
             [id |-> ReceivedMessage(data, t).id,
              from |-> ReceivedMessage(data, t).from,
              to |-> ReceivedMessage(data, t).to,
              encrypted |-> ReceivedMessage(data, t).encrypted,
              timestamp |-> ReceivedMessage(data, t).timestamp,
              decrypted |-> HandlerDecrypt(data, self).value])
    ELSE h

RECURSIVE StoredCount(_, _)
\* How many messages the conversations of store h with the users of us hold.
StoredCount(h, us) ==
    IF us = {} THEN 0
    ELSE LET u == CHOOSE x \in us : TRUE
         IN  Len(Conversation(h, u)) + StoredCount(h, us \ {u})

\* No handleSendMessage call is suspended.
NoSending == [active |-> FALSE, text |-> "", chat |-> NoPeer, mgr |-> 0]

\* What a message handler did, as the user and the stores see it: the alert
\* it raised, whether it encrypted, whether it appended to the message list
\* (setMessages), and the message it was about.
ChatCall(fn, outcome, alert, encrypted, shown, id, from) ==
    [fn |-> fn, outcome |-> outcome, alert |-> alert, encrypted |-> encrypted,
     shown |-> shown, id |-> id, from |-> from]

ChatInit ==
    /\ now = 1
    /\ sending = NoSending
    /\ wire = <<>>
    /\ peerHistory = [p \in Peers |-> EmptyHistory]
    /\ lastChat = ChatCall("none", "none", "none", FALSE, FALSE, "", NoPeer)

\* The values four Date.now() calls of one synchronous block can return from
\* millisecond n on: the clock may move on by one between two of the calls.
DateNowReads(n) ==
    {r \in [1..4 -> {n, n + 1}] :
        /\ r[1] = n
        /\ \A k \in 1..3 : r[k] <= r[k + 1]
        /\ r[4] <= MaxTs}

\* Time passes.
Tick ==
    /\ now < MaxTs
    /\ now' = now + 1
    /\ UNCHANGED <<sending, wire, peerHistory, lastChat, messages>>
    /\ UNCHANGED <<histVars, peerVars>>

\* A guard clause that tells the user nothing.
GuardAlertNone(connected) == "none"

\* The alert of the guard clause of handleSendMessage: raised when
\* webrtc.isConnected() is false.
GuardAlert(connected) == IF ~connected THEN "Not connected" ELSE "none"

\* A catch block that only logs to the console.
CatchAlertNone(error) == "none"

\* The alert of the catch block of handleSendMessage, whatever was thrown.
CatchAlert(error) == "Failed to send message"

\* handleSendMessage with inputMessage.trim() = text, up to its fetch: it
\* returns at once, with an alert when not connected, unless there is a text,
\* an open conversation and a connected manager.
HandleSendMessage(text) ==
    /\ ~sending.active
    /\ IF text = "" \/ currentChat = NoPeer \/ ~IsConnected(mgrs[webrtc])
       THEN /\ lastChat' = ChatCall("handleSendMessage", "returned",
                               GuardAlert(IsConnected(mgrs[webrtc])),
                               FALSE, FALSE, "", Me)
            /\ UNCHANGED sending
       ELSE /\ sending' = [active |-> TRUE, text |-> text, chat |-> currentChat,
                           mgr |-> webrtc]
            /\ lastChat' = ChatCall("handleSendMessage", "fetching", "none",
                               FALSE, FALSE, "", Me)
    /\ UNCHANGED <<now, wire, peerHistory, messages>>
    /\ UNCHANGED <<histVars, peerVars>>

\* The object handleSendMessage hands to webrtc.send for text and
\* conversation chat: reads[1] and reads[2] are its two Date.now() calls.
OutgoingFrame(text, chat, nonce, reads) ==
    EncryptedMessageFrame(DateString(reads[1]), UserData(Me).username, chat,
        EncryptMessage(text, PublicKey(chat), StringToKey(UserData(Me).privateKey),
                       StringToKey(UserData(Me).publicKey), nonce),
        reads[2])

\* A try block that goes on after a send that threw.
SendThrewIgnored(sent) == FALSE

\* webrtc.send(...) threw: the rest of the try block of handleSendMessage is
\* skipped and its catch block runs.
SendThrew(sent) == sent.outcome = "threw"

\* handleSendMessage from the answer of /api/user/public-key on. lookup: how
\* the fetch ended; reads: what its Date.now() calls return. A failed lookup
\* and a throwing webrtc.send end in the catch block: console.error and the
\* alert. Otherwise the frame is on the channel and the echo is saved and shown.
SendMessageResume(lookup, nonce, reads) ==
    LET encrypted == EncryptMessage(sending.text, PublicKey(sending.chat),
                         StringToKey(UserData(Me).privateKey),
                         StringToKey(UserData(Me).publicKey), nonce)
        frame == OutgoingFrame(sending.text, sending.chat, nonce, reads)
        tempMessage == [id |-> DateString(reads[3]), from |-> Me,
                        to |-> sending.chat, encrypted |-> encrypted,
                        timestamp |-> reads[4], decrypted |-> sending.text]
        sent == ChannelSend(mgrs[sending.mgr].dataChannel)
    IN  /\ sending.active
        /\ Len(wire) < MaxWire
        /\ StoredCount(history, Peers) < MaxMessages
        /\ Len(messages) < MaxShown
        /\ sending' = NoSending
        /\ IF lookup # "ok"
           THEN /\ lastChat' = ChatCall("handleSendMessage", "lookupFailed",
                                   CatchAlert("Recipient not found"), FALSE,
                                   FALSE, "", Me)
                /\ UNCHANGED <<now, wire, lastSend, histVars, messages>>
           ELSE IF SendThrew(sent)
           THEN /\ lastChat' = ChatCall("handleSendMessage", "sendThrew",
                                   CatchAlert("Data channel not connected"), TRUE,
                                   FALSE, "", Me)
                /\ lastSend' = sent
                /\ UNCHANGED <<now, wire, histVars, messages>>
           ELSE /\ lastSend' = sent
                /\ wire' = Append(wire, [frame |-> frame,
                                         peer |-> mgrs[sending.mgr].remoteUsername])
                /\ SaveMessageToHistory(tempMessage)
                /\ messages' = Append(messages, tempMessage)
                /\ now' = reads[4]
                /\ lastChat' = ChatCall("handleSendMessage", "sent", "none",
                                   TRUE, TRUE, tempMessage.id, Me)
        /\ UNCHANGED peerHistory
        /\ UNCHANGED <<mgrs, created, webrtc, pending, offers, inbox, currentChat>>

\* What peer p can put on the channel at millisecond t of the local clock:
\* the frame its own handleSendMessage makes for the local user, the same with id and timestamp missing, with its ciphertext
\* damaged, or encrypted for somebody else, and a message of another type.
InboundData(p, t) ==
    {SentFrame(p, Me, "hello", n, t) : n \in Nonces}
    \cup {[SentFrame(p, Me, "hello", n, t) EXCEPT !.id = "", !.timestamp = 0] :
           n \in Nonces}
    \cup {[SentFrame(p, Me, "hello", n, t) EXCEPT
              !.encrypted.ciphertext = KeyToString(Garbled)] : n \in Nonces}
    \cup {SentFrame(p, q, "hello", n, t) : <<n, q>> \in Nonces \X (Peers \ {p})}
    \cup {[SentFrame(p, Me, "hello", n, t) EXCEPT !.type = "typing"] : n \in Nonces}

\* What peer p can put on the channel besides: a frame it boxed for the local
\* user with its own keys, declaring another user as sender or as addressee.
ForgedData(p, t) ==
    {[SentFrame(p, Me, "hello", n, t) EXCEPT !.from = q] :
        <<n, q>> \in Nonces \X (Peers \ {p})}
    \cup {[SentFrame(p, Me, "hello", n, t) EXCEPT !.to = q] :
            <<n, q>> \in Nonces \X (Peers \ {p})}

\* The manager.onMessage handler of the local endpoint on data arriving over
\* an open channel; both Date.now() fallbacks read the same millisecond. A
\* message that decrypts is saved and shown; a decryption failure is caught
\* and logged to the console.
OnMessage(data) ==
    LET message == ReceivedMessage(data, now)
        decrypted == HandlerDecrypt(data, Me)
        decryptedMessage ==
            [id |-> message.id, from |-> message.from, to |-> message.to,
             encrypted |-> message.encrypted, timestamp |-> message.timestamp,
             decrypted |-> decrypted.value]
    IN  /\ StoredCount(history, Peers) < MaxMessages
        /\ Len(messages) < MaxShown
        /\ \E m \in ManagerIds :
              /\ mgrs[m].exists /\ mgrs[m].dataChannel = "open"
              /\ mgrs[m].remoteUsername # NoPeer
              /\ \E t \in 1..now :
                    data \in InboundData(mgrs[m].remoteUsername, t)
                             \cup ForgedData(mgrs[m].remoteUsername, t)
        /\ IF data.type # "encrypted_message"
           THEN /\ lastChat' = ChatCall("onMessage", "ignored", "none", FALSE,
                                   FALSE, message.id, message.from)
                /\ UNCHANGED <<histVars, messages>>
           ELSE IF ~decrypted.ok
           THEN /\ lastChat' = ChatCall("onMessage", "decryptFailed", "none",
                                   FALSE, FALSE, message.id, message.from)
                /\ UNCHANGED <<histVars, messages>>
           ELSE /\ SaveMessageToHistory(decryptedMessage)
                /\ messages' = Append(messages, decryptedMessage)
                /\ lastChat' = ChatCall("onMessage", "stored", "none", FALSE,
                                   TRUE, message.id, message.from)
        /\ UNCHANGED <<now, sending, wire, peerHistory>>
        /\ UNCHANGED peerVars

\* The channel delivers the oldest frame: the onMessage handler of the remote
\* endpoint runs on it.
PeerReceives ==
    /\ wire # <<>>
    /\ peerHistory' = [peerHistory EXCEPT ![Head(wire).peer] =
                          HandledHistory(@, Head(wire).peer, Head(wire).frame, now)]
    /\ wire' = Tail(wire)
    /\ UNCHANGED <<now, sending, lastChat, messages>>
    /\ UNCHANGED <<histVars, peerVars>>

\* The manager of handleStartChat(q) after q's answer was applied and the
\* transport came up.
ConnectedTo(q) ==
    [HandleAnswer(ConnectToUser(Initialize(Constructed), q, 1), Item("answer", q, 1))
        EXCEPT !.conn = "connected", !.dataChannel = "open"]

\* The peer session connected to some peer, whose conversation is open.
PeerConnectedInit ==
    \E q \in Peers :
       /\ mgrs = [i \in ManagerIds |-> IF i = 1 THEN ConnectedTo(q) ELSE Unconstructed]
       /\ created = 1
       /\ webrtc = 1
       /\ pending = NoPending
       /\ offers = <<[Offer(q, 1) EXCEPT !.status = "answered"]>>
       /\ inbox = <<>>
       /\ lastSend = SendResult("none", 0)
       /\ currentChat = q

(***************************************************************************)
(* lib/websocket: ChatWebSocket                                            *)
(***************************************************************************)

\* private maxReconnectAttempts = 5
maxReconnectAttempts == 5

\* A backoff that does not grow.
ReconnectDelayFlat(attempts) == 1000

\* The setTimeout delay of a reconnection, in ms: 1000 * this.reconnectAttempts
ReconnectDelay(attempts) == 1000 * attempts

\* A reconnection policy without an attempt bound.
ShouldReconnectUnbounded(wasClean, creds, attempts) ==
    ~wasClean /\ creds

\* The condition of onclose for scheduling a reconnection:
\* !event.wasClean && username && publicKey
\*   && this.reconnectAttempts < this.maxReconnectAttempts
ShouldReconnect(wasClean, creds, attempts) ==
    ~wasClean /\ creds /\ attempts < maxReconnectAttempts

\* new WebSocket(this.url) inside connect(username, publicKey). creds: username
\* && publicKey, as the handlers of this socket closed over them; opened: the
\* handshake completed; registered: a register frame was sent on it;
\* acknowledged: the relay's reply to that frame has arrived.
NewWebSocket(creds) ==
    [readyState |-> "CONNECTING", creds |-> creds, opened |-> FALSE,
     registered |-> FALSE, acknowledged |-> FALSE]

\* A WebSocket that closed: it does nothing any more, and what it was is of no
\* account.
ClosedWebSocket ==
    [readyState |-> "CLOSED", creds |-> FALSE, opened |-> FALSE,
     registered |-> FALSE, acknowledged |-> FALSE]

\* A sequence without its k-th element.
Without(seq, k) ==
    [n \in 1..(Len(seq) - 1) |-> IF n < k THEN seq[n] ELSE seq[n + 1]]

RelayInit ==
    /\ sockets = <<>>
    /\ ws = 0
    /\ reconnectAttempts = 0
    /\ timers = <<>>
    /\ notified = "none"
    /\ disconnected = FALSE
    /\ lastDelay = 0

\* connect(username, publicKey): this.ws = new WebSocket(this.url), with its
\* handlers attached. The socket this.ws pointed at before is left as it is.
Connect(creds) ==
    /\ Len(sockets) < MaxSockets
    /\ sockets' = Append(sockets, NewWebSocket(creds))
    /\ ws' = Len(sockets) + 1

\* The owner calls connect(username, publicKey).
OwnerConnects(creds) ==
    /\ Connect(creds)
    /\ disconnected' = FALSE
    /\ UNCHANGED <<reconnectAttempts, timers, notified, lastDelay>>

\* A setTimeout callback of onclose runs: this.connect(username, publicKey).
TimerFires(k) ==
    /\ Connect(TRUE)
    /\ timers' = Without(timers, k)
    /\ UNCHANGED <<reconnectAttempts, notified, disconnected, lastDelay>>

\* send(message) on the socket table s: the frame goes out on this.ws when it
\* is OPEN, else an error is logged.
RelaySend(s, type) ==
    IF ws # 0 /\ s[ws].readyState = "OPEN"
    THEN [s EXCEPT ![ws].registered = @ \/ type = "register"]
    ELSE s

\* onopen of socket i: the attempts are reset, register is sent through
\* this.send, onConnectCallback runs.
OnOpen(i) ==
    /\ sockets[i].readyState = "CONNECTING"
    /\ reconnectAttempts' = 0
    /\ sockets' = RelaySend([sockets EXCEPT ![i].readyState = "OPEN",
                                            ![i].opened = TRUE], "register")
    /\ notified' = "connect"
    /\ lastDelay' = 0
    /\ UNCHANGED <<ws, timers, disconnected>>

\* onmessage of socket i with the relay's reply to the register frame: the
\* handlers registered for its type run; the ChatWebSocket keeps nothing of it.
OnRegistered(i) ==
    /\ sockets[i].readyState = "OPEN"
    /\ sockets[i].registered
    /\ ~sockets[i].acknowledged
    /\ sockets' = [sockets EXCEPT ![i].acknowledged = TRUE]
    /\ UNCHANGED <<ws, reconnectAttempts, timers, notified, disconnected, lastDelay>>

\* onclose of socket i with event.wasClean = wasClean; a socket whose
\* handshake never completed cannot close cleanly. onDisconnectCallback runs;
\* a reconnection is scheduled if the close was not clean, the credentials
\* are there and attempts are left.
OnClose(i, wasClean) ==
    /\ sockets[i].readyState \in {"CONNECTING", "OPEN", "CLOSING"}
    /\ ~sockets[i].opened => ~wasClean
    /\ sockets' = [sockets EXCEPT ![i] = ClosedWebSocket]
    /\ notified' = "disconnect"
    /\ IF ShouldReconnect(wasClean, sockets[i].creds, reconnectAttempts)
       THEN /\ reconnectAttempts' = reconnectAttempts + 1
            /\ timers' = Append(timers, ReconnectDelay(reconnectAttempts + 1))
            /\ lastDelay' = ReconnectDelay(reconnectAttempts + 1)
       ELSE UNCHANGED <<reconnectAttempts, timers, lastDelay>>
    /\ UNCHANGED <<ws, disconnected>>

\* disconnect(): this.ws.close() (nothing on a socket already closing or
\* closed), this.ws = null.
Disconnect ==
    /\ IF ws # 0
       THEN /\ sockets' = [sockets EXCEPT ![ws].readyState =
                              IF @ \in {"CONNECTING", "OPEN"} THEN "CLOSING" ELSE @]
            /\ ws' = 0
       ELSE UNCHANGED <<sockets, ws>>
    /\ disconnected' = TRUE
    /\ UNCHANGED <<reconnectAttempts, timers, notified, lastDelay>>

\* The events handlers are registered for: a frame type, and 'message' for
\* every frame.
EventNames == {"username_available", "message"}

\* Handlers: a and b are handlers of checkUsername, which call
\* socket.off('username_available', handler) when they get a frame of that
\* type; g is a handler that only looks at the frame.
HandlerIds == {"a", "b", "g"}
SelfRemoving == {"a", "b"}

\* Longest handler list of one event.
MaxHandlers == 2

DispatchInit ==
    /\ messageHandlers = [e \in EventNames |-> <<>>]
    /\ dispatched = [type |-> "none", handlers |-> [e \in EventNames |-> <<>>]]
    /\ invoked = [h \in HandlerIds |-> 0]

\* handlers.splice(handlers.indexOf(handler), 1) when the handler is there.
Spliced(handlers, handler) ==
    IF \E k \in 1..Len(handlers) : handlers[k] = handler
    THEN Without(handlers,
                 CHOOSE k \in 1..Len(handlers) :
                    /\ handlers[k] = handler
                    /\ \A j \in 1..(k - 1) : handlers[j] # handler)
    ELSE handlers

\* on(event, handler); checkUsername registers a handler of its own, once,
\* for 'username_available'.
On(event, handler) ==
    /\ Len(messageHandlers[event]) < MaxHandlers
    /\ handler \in SelfRemoving =>
          /\ event = "username_available"
          /\ \A k \in 1..Len(messageHandlers[event]) :
                messageHandlers[event][k] # handler
    /\ messageHandlers' = [messageHandlers EXCEPT ![event] = Append(@, handler)]
    /\ UNCHANGED <<dispatched, invoked>>

\* off(event, handler)
Off(event, handler) ==
    /\ messageHandlers' = [messageHandlers EXCEPT ![event] = Spliced(@, handler)]
    /\ UNCHANGED <<dispatched, invoked>>

\* handler(data) for a frame of the given type, as it leaves messageHandlers.
Invoke(handlers, handler, type) ==
    IF handler \in SelfRemoving /\ type = "username_available"
    THEN [handlers EXCEPT !["username_available"] = Spliced(@, handler)]
    ELSE handlers

RECURSIVE ForEach(_, _, _, _)
\* handlers.forEach(handler => handler(data)) from index k on, over the array
\* of event as it is when each index is reached. st: messageHandlers and the
\* invocation counts.
ForEach(event, k, type, st) ==
    IF k > Len(st.handlers[event]) THEN st
    ELSE LET handler == st.handlers[event][k]
         IN  ForEach(event, k + 1, type,
                     [handlers |-> Invoke(st.handlers, handler, type),
                      invoked |-> [st.invoked EXCEPT ![handler] = @ + 1]])

\* onmessage with a frame of the given type: the handlers of data.type, then
\* the handlers of 'message'.
Dispatch(type) ==
    LET typed == ForEach(type, 1, type,
                         [handlers |-> messageHandlers,
                          invoked |-> [h \in HandlerIds |-> 0]])
        generic == ForEach("message", 1, type, typed)
    IN  /\ messageHandlers' = generic.handlers
        /\ invoked' = generic.invoked
        /\ dispatched' = [type |-> type, handlers |-> messageHandlers]

(***************************************************************************)
(* Outbound payloads: every fetch, relay frame and data-channel message    *)
(***************************************************************************)

\* JSON.stringify(value): the text of a value.
JsonStringify(value) == ToString(value)

\* The session description or candidate the browser produces for the local
\* peer connection.
SessionDescription(type) == [type |-> type, sdp |-> "sdp"]

\* A registration that sends the stored private key in place of the public
\* one.
RegisterRequestPrivate(userData) ==
    [username |-> userData.username, public_key |-> userData.privateKey]

\* Body of POST /api/register.
RegisterRequest(userData) ==
    [username |-> userData.username, public_key |-> userData.publicKey]

\* Body of POST /api/user/public-key.
PublicKeyRequest(chat) == [username |-> chat]

\* GET /api/webrtc/pending-messages/<username>: what the URL carries.
PendingMessagesRequest(userData) == [username |-> userData.username]

\* Body of POST /api/webrtc/offer, /answer and /ice-candidate: field is
\* "offer", "answer" or "candidate".
SignalingRequest(field, from, to, description) ==
    [f \in {"from", "to", field} |->
        IF f = "from" THEN from
        ELSE IF f = "to" THEN to
        ELSE JsonStringify(description)]

\* The frame ChatWebSocket sends when its socket opens.
RegisterFrame(username, publicKey) ==
    [type |-> "register", username |-> username, public_key |-> publicKey]

\* The frame checkUsername sends.
CheckUsernameFrame(username) == [type |-> "check_username", username |-> username]

\* The text of every leaf of a payload body, the fields of its encrypted
\* envelope included.
Leaves(body) ==
    {JsonStringify(body[f]) : f \in DOMAIN body \ {"encrypted"}}
    \cup (IF "encrypted" \in DOMAIN body
          THEN {JsonStringify(body.encrypted[f]) : f \in DOMAIN body.encrypted}
          ELSE {})

\* The names of the fields of a payload body, at both levels.
FieldNames(body) ==
    DOMAIN body
    \cup (IF "encrypted" \in DOMAIN body THEN DOMAIN body.encrypted ELSE {})

\* The texts a user types into the message box.
MessageTexts == {"hello", "bye"}

NetInit ==
    /\ outbound = <<>>
    /\ sendResult = [called |-> FALSE, open |-> FALSE, threw |-> FALSE, logged |-> FALSE]

\* Nothing is on screen.
ViewInit == messages = <<>>

\* The record of outbound payloads after body went out on channel.
Transmit(channel, body) == Append(outbound, [channel |-> channel, body |-> body])

\* initialize: the endpoint registers with the directory.
FetchRegister ==
    /\ Len(outbound) < MaxOutbound
    /\ outbound' = Transmit("directory", RegisterRequest(UserData(Me)))

\* handleSendMessage: the lookup of the recipient's public key.
FetchPublicKey(chat) ==
    /\ Len(outbound) < MaxOutbound
    /\ outbound' = Transmit("directory", PublicKeyRequest(chat))

\* pollSignalingMessages: the poll for pending signaling messages.
FetchPendingMessages ==
    /\ Len(outbound) < MaxOutbound
    /\ outbound' = Transmit("signaling", PendingMessagesRequest(UserData(Me)))

\* sendOffer, sendAnswer, sendIceCandidate of the manager of the local user.
FetchSignaling(field, to) ==
    /\ Len(outbound) < MaxOutbound
    /\ outbound' = Transmit("signaling",
                       SignalingRequest(field, UserData(Me).username, to,
                       SessionDescription(field)))

\* handleSendMessage: webrtc.send of the encrypted message.
DataChannelSend(text, chat, nonce, reads) ==
    /\ Len(outbound) < MaxOutbound
    /\ outbound' = Transmit("dataChannel",
                       OutgoingFrame(text, chat, nonce, reads))

\* ChatWebSocket.onopen after connect(username, publicKey); UsernameSetup is
\* the only caller of connect.
RelayRegister ==
    /\ Len(outbound) < MaxOutbound
    /\ outbound' = Transmit("relay", RegisterFrame("temp_check", "temp_key"))

\* checkUsername: the availability check for the name being chosen.
RelayCheckUsername(username) ==
    /\ Len(outbound) < MaxOutbound
    /\ outbound' = Transmit("relay", CheckUsernameFrame(username))

\* What send(message) gives its caller: the method is void and has no throw;
\* console.error is called when the socket is not open.
SendOutcome(open) ==
    [called |-> TRUE, open |-> open, threw |-> FALSE, logged |-> ~open]

\* ChatWebSocket.send(message) called by the owner of the socket, as
\* checkUsername of UsernameSetup does.
SocketSend(message) ==
    LET open == ws # 0 /\ sockets[ws].readyState = "OPEN" IN
    /\ open => Len(outbound) < MaxOutbound
    /\ outbound' = IF open THEN Transmit("relay", message) ELSE outbound
    /\ sendResult' = SendOutcome(open)

\* How POST /api/register can end for initialize: response.ok; a response
\* that is not ok and says the user already exists (or has status 409); any
\* other response that is not ok, its JSON body read; a response that is not
\* ok whose body is not JSON; a fetch that rejects.
RegistrationOutcomes ==
    {"ok", "alreadyExists", "rejected", "unreadableError", "requestFailed"}

\* initialize goes on to construct the manager: it returns early only from
\* the else branch for a read error body; a throw of fetch or of
\* registerResponse.json() lands in the inner catch, which goes on.
GoesOn(outcome) == outcome # "rejected"

\* The component is mounted and its initialize has installed a manager. The
\* mount effect has [userData?.username] as dependencies, so the effect that
\* ran is the one of the first render, where webrtc was useState(null).
MountedInit ==
    /\ registration = "ok"
    /\ isMounted = TRUE
    /\ effectWebrtc = 0

\* initialize of the mount effect, the registration ending as outcome: the
\* manager is constructed, initialized and installed by setWebrtc, or the
\* function returns. No conversation was saved, so nothing is restored.
Mount(outcome) ==
    /\ registration = "none"
    /\ isMounted
    /\ registration' = outcome
    /\ IF GoesOn(outcome)
       THEN /\ mgrs' = [mgrs EXCEPT ![created + 1] = Initialize(Constructed)]
            /\ created' = created + 1
            /\ webrtc' = created + 1
       ELSE UNCHANGED <<mgrs, created, webrtc>>
    /\ UNCHANGED <<pending, offers, inbox, lastSend, currentChat, messages>>
    /\ UNCHANGED <<isMounted, effectWebrtc>>

\* initialize resumed after the cleanup ran: it returns at the isMounted check
\* that follows the registration, or, when the cleanup ran while
\* manager.initialize() was awaited (constructed), closes the manager it
\* constructed; nothing is installed.
InitializeTornDown(outcome, constructed) ==
    /\ registration = "none"
    /\ ~isMounted
    /\ registration' = outcome
    /\ IF GoesOn(outcome) /\ constructed
       THEN /\ mgrs' = [mgrs EXCEPT ![created + 1] = Close(Initialize(Constructed))]
            /\ created' = created + 1
       ELSE UNCHANGED <<mgrs, created>>
    /\ UNCHANGED <<webrtc, pending, offers, inbox, lastSend, currentChat, messages>>
    /\ UNCHANGED <<isMounted, effectWebrtc>>

\* The cleanup of the mount effect, run at logout or unmount: isMounted =
\* false, and webrtc.close() if the webrtc of the effect's render is not null.
Cleanup ==
    /\ isMounted
    /\ isMounted' = FALSE
    /\ mgrs' = IF effectWebrtc # 0
               THEN [mgrs EXCEPT ![effectWebrtc] = Close(@)]
               ELSE mgrs
    /\ UNCHANGED <<created, webrtc, pending, offers, inbox, lastSend, currentChat>>
    /\ UNCHANGED <<messages, registration, effectWebrtc>>

(***************************************************************************)
(* Specifications                                                          *)
(***************************************************************************)

Init ==
    /\ HistInit /\ PeerInit /\ RelayInit /\ ChatInit /\ NetInit /\ ViewInit
    /\ BoxInit /\ MountedInit /\ DispatchInit /\ PollInit

HistNext ==
    /\ UNCHANGED <<peerVars, relayVars, chatVars, netVars, sideVars, viewVars>>
    /\ \/ SaveUserData
       \/ ClearUserData
       \/ \E message \in ChatMessages : SaveMessageToHistory(message)
       \/ \E username \in Peers : ClearChatHistory(username)
       \/ ClearAllChatHistory

SpecHistory == Init /\ [][HistNext]_vars

PeerNext ==
    /\ UNCHANGED <<histVars, relayVars, chatVars, netVars, sideVars>>
    /\ \/ \E user \in Peers : HandleStartChat(user)
       \/ StartChatResume
       \/ \E user \in Peers : OnlineUserClick(user)
       \/ ClickResume
       \/ \E rollback \in BOOLEAN : PollSignalingMessages(rollback)
       \/ \E neg \in 1..Len(offers) : PeerAnswers(neg)
       \/ \E neg \in 1..Len(offers) : PeerSendsCandidate(neg)
       \/ \E peer \in Peers : PeerOffers(peer)
       \/ \E mgr \in ManagerIds : TransportEstablished(mgr)
       \/ \E mgr \in ManagerIds : TransportFails(mgr)
       \/ \E mgr \in ManagerIds : ChannelDrops(mgr)
       \/ Send

SpecPeer == Init /\ [][PeerNext]_vars

\* What the program itself schedules: the poll interval keeps handling pending
\* items, a suspended click handler resumes. Users and peers are not obliged
\* to act, and the transport need not come up.
PeerFairness ==
    /\ WF_vars(UNCHANGED <<histVars, relayVars, chatVars, netVars, sideVars>>
               /\ \E rollback \in BOOLEAN : PollSignalingMessages(rollback))
    /\ WF_vars(UNCHANGED <<histVars, relayVars, chatVars, netVars, sideVars>> /\ StartChatResume)
    /\ WF_vars(UNCHANGED <<histVars, relayVars, chatVars, netVars, sideVars>> /\ ClickResume)

FairSpecPeer == Init /\ [][PeerNext]_vars /\ PeerFairness

RelayNext ==
    /\ UNCHANGED <<histVars, peerVars, chatVars, netVars, sideVars, viewVars>>
    /\ \/ \E creds \in BOOLEAN : OwnerConnects(creds)
       \/ \E k \in 1..Len(timers) : TimerFires(k)
       \/ \E i \in 1..Len(sockets) : OnOpen(i)
       \/ \E i \in 1..Len(sockets) : \E wasClean \in BOOLEAN : OnClose(i, wasClean)
       \/ Disconnect

SpecRelay == Init /\ [][RelayNext]_vars

\* Signaling items reaching the session in any order, before or after
\* negotiation started, and the poll handling them.
SignalingNext ==
    /\ UNCHANGED <<histVars, relayVars, chatVars, netVars, sideVars>>
    /\ \/ \E type \in {"offer", "answer", "ice-candidate"} :
             \E from \in Peers : SignalingArrives(type, from)
       \/ \E rollback \in BOOLEAN : PollSignalingMessages(rollback)

SignalingInit ==
    /\ HistInit
    /\ RelayInit
    /\ ChatInit
    /\ NetInit
    /\ ViewInit
    /\ BoxInit
    /\ MountedInit
    /\ DispatchInit
    /\ PollInit
    /\ (PeerInit \/ PeerOfferingInit)

SpecSignaling == SignalingInit /\ [][SignalingNext]_vars

\* The relay connection together with the relay's replies to registrations.
RegistrationNext ==
    \/ RelayNext
    \/ /\ UNCHANGED <<histVars, peerVars, chatVars, netVars, sideVars, viewVars>>
       /\ \E i \in 1..Len(sockets) : OnRegistered(i)

SpecRegistration == Init /\ [][RegistrationNext]_vars

\* The relay connection together with frames its owner sends on it.
SendNext ==
    \/ RelayNext
    \/ /\ UNCHANGED <<histVars, peerVars, relayVars, chatVars, viewVars, sideVars>>
       /\ SocketSend(CheckUsernameFrame(Me))

SpecSend == Init /\ [][SendNext]_vars

\* The envelopes a stored message of alice can have: one the local user can
\* open, one whose ciphertext is damaged, and one boxed for somebody else.
StoredEnvelopes ==
    {EncryptMessage("bye", PublicKey(Me), PrivateKey("alice"), PublicKey("alice"), "n1"),
     [EncryptMessage("bye", PublicKey(Me), PrivateKey("alice"), PublicKey("alice"), "n1")
        EXCEPT !.ciphertext = KeyToString(Garbled)],
     EncryptMessage("bye", PublicKey("bob"), PrivateKey("alice"), PublicKey("alice"), "n1")}

\* The k-th message of a stored conversation with alice: StoredMessage, its
\* decrypted field being optional.
StoredEntries(k) ==
    {[id |-> DateString(k), from |-> "alice", to |-> Me, encrypted |-> e,
      timestamp |-> k, decrypted |-> d] :
        <<e, d>> \in StoredEnvelopes \X {NoPlain, "bye"}}

\* The conversations with alice that localStorage can hold when the component
\* mounts: at most RetentionCap messages, in timestamp order.
StoredConversations ==
    UNION {{conv \in [1..n -> UNION {StoredEntries(k) : k \in 1..n}] :
               \A k \in 1..n : conv[k] \in StoredEntries(k)} : n \in 0..RetentionCap}

\* The component mounted over a history written in earlier sessions.
RestoreInit ==
    /\ userName = Me
    /\ hasMessages = TRUE
    /\ \E conv \in StoredConversations :
          history = WithConversation(EmptyHistory, "alice", conv)
    /\ lastCall = Call("none", "none", NoMessage, "")
    /\ PeerInit
    /\ RelayInit
    /\ ChatInit
    /\ NetInit
    /\ ViewInit
    /\ BoxInit
    /\ MountedInit
    /\ DispatchInit
    /\ PollInit

\* The handlers that open a conversation, over a stored history.
RestoreNext ==
    /\ UNCHANGED <<histVars, relayVars, chatVars, netVars, sideVars>>
    /\ \/ \E user \in Peers : HandleStartChat(user)
       \/ \E user \in Peers : OnlineUserClick(user)

SpecRestore == RestoreInit /\ [][RestoreNext]_vars

\* The component before its mount effect ran: no manager is constructed, the
\* webrtc state is null (0).
MountInit ==
    /\ HistInit
    /\ mgrs = [i \in ManagerIds |-> Unconstructed]
    /\ created = 0
    /\ webrtc = 0
    /\ pending = NoPending
    /\ offers = <<>>
    /\ inbox = <<>>
    /\ lastSend = SendResult("none", 0)
    /\ currentChat = NoPeer
    /\ RelayInit
    /\ ChatInit
    /\ NetInit
    /\ ViewInit
    /\ BoxInit
    /\ registration = "none"
    /\ isMounted = TRUE
    /\ effectWebrtc = webrtc
    /\ DispatchInit
    /\ PollInit

\* The mount effect, and the session handlers once a manager is installed
\* (the handlers return at once while webrtc is null).
MountNext ==
    \/ /\ UNCHANGED <<histVars, relayVars, chatVars, netVars, boxVars, dispatchVars, pollVars>>
       /\ \E outcome \in RegistrationOutcomes : Mount(outcome)
    \/ /\ webrtc # 0
       /\ PeerNext

SpecMount == MountInit /\ [][MountNext]_vars

\* The mount effect and its cleanup, with the session handlers while the
\* component is mounted.
TeardownNext ==
    \/ /\ UNCHANGED <<histVars, relayVars, chatVars, netVars, boxVars, dispatchVars, pollVars>>
       /\ \/ \E outcome \in RegistrationOutcomes : Mount(outcome)
          \/ \E outcome \in RegistrationOutcomes, constructed \in BOOLEAN :
                InitializeTornDown(outcome, constructed)
          \/ Cleanup
    \/ /\ isMounted
       /\ webrtc # 0
       /\ PeerNext

SpecTeardown == MountInit /\ [][TeardownNext]_vars

\* Handlers registered and removed on a ChatWebSocket and frames reaching it.
DispatchNext ==
    /\ UNCHANGED <<histVars, peerVars, relayVars, chatVars, netVars, viewVars,
                   boxVars, mountVars, pollVars>>
    /\ \/ \E event \in EventNames : \E handler \in HandlerIds : On(event, handler)
       \/ \E event \in EventNames : \E handler \in HandlerIds : Off(event, handler)
       \/ \E type \in EventNames : Dispatch(type)

SpecDispatch == Init /\ [][DispatchNext]_vars

\* The offer and the candidates of a peer reaching the directory while the
\* polls of the component fetch and handle them.
PollingNext ==
    /\ UNCHANGED <<histVars, relayVars, chatVars, netVars, boxVars, mountVars,
                   dispatchVars>>
    /\ \/ /\ \E type \in {"offer", "ice-candidate"} : SignalingArrives(type, "alice")
          /\ UNCHANGED pollVars
       \/ PollResponds
       \/ \E b \in 1..Len(batches) : \E rollback \in BOOLEAN : PollHandles(b, rollback)

SpecPolling == Init /\ [][PollingNext]_vars

\* Messages encrypted between any two key pairs and decrypted by any holder
\* of a private key.
RoundTripNext ==
    /\ UNCHANGED <<histVars, peerVars, relayVars, chatVars, netVars, viewVars,
                   mountVars, dispatchVars, pollVars>>
    /\ \/ \E message \in MessageStrings : \E sender \in Users : \E recipient \in Users :
             \E nonce \in Nonces : Encrypt(message, sender, recipient, nonce)
       \/ \E by \in Users : Decrypt(by)

SpecRoundTrip == Init /\ [][RoundTripNext]_vars

\* A ChatWebSocket after n connections in a row were refused or lost before
\* they opened, each reconnection timer having fired before the next close:
\* this.ws is the socket that closed last (the closed ones before it are not
\* kept), reconnectAttempts is n and the n-th timer is pending.
BackoffInit ==
    /\ HistInit
    /\ PeerInit
    /\ ChatInit
    /\ NetInit
    /\ ViewInit
    /\ BoxInit
    /\ MountedInit
    /\ DispatchInit
    /\ PollInit
    /\ \E n \in 0..maxReconnectAttempts :
          /\ sockets = IF n = 0 THEN <<>> ELSE <<ClosedWebSocket>>
          /\ ws = IF n = 0 THEN 0 ELSE 1
          /\ reconnectAttempts = n
          /\ timers = IF n = 0 THEN <<>> ELSE <<ReconnectDelay(n)>>
          /\ notified = IF n = 0 THEN "none" ELSE "disconnect"
          /\ disconnected = FALSE
          /\ lastDelay = ReconnectDelay(n)

\* The relay connection from any point of a run of failed attempts.
SpecBackoff == BackoffInit /\ [][RelayNext]_vars

\* The message pipeline over a session that is connected or not: sends,
\* inbound messages, deliveries at the remote end, the clock, and the channel
\* dropping.
ChatNext ==
    /\ UNCHANGED <<relayVars, netVars, sideVars>>
    /\ \/ Tick
       \/ \E text \in {"", "hello"} : HandleSendMessage(text)
       \/ \E lookup \in {"ok", "notFound", "failed"} :
             \E nonce \in Nonces : \E reads \in DateNowReads(now) :
                SendMessageResume(lookup, nonce, reads)
       \/ \E p \in Peers : \E data \in InboundData(p, now) : OnMessage(data)
       \/ PeerReceives
       \/ \E mgr \in ManagerIds :
             ChannelDrops(mgr) /\ UNCHANGED <<histVars, chatVars>>

ConnectedInit ==
    /\ HistInit
    /\ RelayInit
    /\ ChatInit
    /\ NetInit
    /\ ViewInit
    /\ BoxInit
    /\ MountedInit
    /\ DispatchInit
    /\ PollInit
    /\ (PeerInit \/ PeerConnectedInit)

SpecChat == ConnectedInit /\ [][ChatNext]_vars

\* The message pipeline with a peer that also sends frames declaring another
\* sender or addressee.
InboundNext ==
    \/ ChatNext
    \/ /\ UNCHANGED <<relayVars, netVars, sideVars>>
       /\ \E p \in Peers : \E data \in ForgedData(p, now) : OnMessage(data)

SpecInbound == ConnectedInit /\ [][InboundNext]_vars

\* The peer session together with the sending of messages over whatever
\* session the installed manager has.
ConversationNext ==
    \/ PeerNext
    \/ /\ UNCHANGED <<relayVars, netVars, sideVars>>
       /\ \/ HandleSendMessage("hello")
          \/ \E nonce \in Nonces : \E reads \in DateNowReads(now) :
                SendMessageResume("ok", nonce, reads)

SpecConversation == Init /\ [][ConversationNext]_vars

\* The message pipeline with inbound messages that were under way for a
\* while: they carry the millisecond they were sent in.
DisplayNext ==
    \/ ChatNext
    \/ /\ UNCHANGED <<relayVars, netVars, sideVars>>
       /\ \E p \in Peers : \E t \in 1..now :
             \E data \in InboundData(p, t) : OnMessage(data)

SpecDisplay == ConnectedInit /\ [][DisplayNext]_vars

\* Everything the endpoint hands to the network.
PayloadNext ==
    /\ UNCHANGED <<histVars, peerVars, relayVars, chatVars, viewVars, sideVars, sendResult>>
    /\ \/ FetchRegister
       \/ \E chat \in Peers : FetchPublicKey(chat)
       \/ FetchPendingMessages
       \/ \E field \in {"offer", "answer", "candidate"} :
             \E to \in Peers : FetchSignaling(field, to)
       \/ \E text \in MessageTexts : \E chat \in Peers : \E nonce \in Nonces :
             \E t \in 1..MaxTs : \E reads \in DateNowReads(t) :
                DataChannelSend(text, chat, nonce, reads)
       \/ RelayRegister
       \/ RelayCheckUsername(Me)

SpecPayload == Init /\ [][PayloadNext]_vars

\* The whole program.
Next ==
    HistNext \/ PeerNext \/ SignalingNext \/ RegistrationNext \/ SendNext
    \/ DisplayNext \/ PayloadNext \/ RoundTripNext \/ RestoreNext \/ MountNext
    \/ ConversationNext \/ DispatchNext \/ PollingNext \/ InboundNext
    \/ TeardownNext

Spec == Init /\ [][Next]_vars

(***************************************************************************)
(* Properties of the history store                                         *)
(***************************************************************************)

\* The stored messages of a conversation, as a set.
Stored(conv) == {conv[i] : i \in 1..Len(conv)}

\* Some stored message of conv carries this id.
HasId(conv, id) == \E m \in Stored(conv) : m.id = id

\* The conversation a message belongs to when `user` is the local identity.
ConversationKey(message, user) ==
    IF message.from = user THEN message.to ELSE message.from

\* The step is a saveMessageToHistory call made with an identity stored.
IsSave == lastCall'.fn = "saveMessageToHistory" /\ userName # NoUser

\* C1: no conversation of the persisted history holds two messages with the
\* same id, whatever saves and clears were made.
C1_NoDuplicateIds ==
    \A u \in DOMAIN history :
        \A i, j \in 1..Len(history[u]) :
            i # j => history[u][i].id # history[u][j].id

\* C1 witness: a save met a stored id in a conversation of several messages,
\* while the same id is also stored in another conversation.
C1_Witness ==
    /\ lastCall.fn = "saveMessageToHistory"
    /\ lastCall.outcome = "exists"
    /\ lastCall.username = "alice"
    /\ Len(Conversation(history, "alice")) >= 2
    /\ HasId(Conversation(history, "alice"), lastCall.message.id)
    /\ HasId(Conversation(history, "bob"), lastCall.message.id)

\* C2: a save of a message whose id is already stored in its conversation
\* leaves the whole persisted history as it was.
C2_DuplicateAppendIsNoOp ==
    [][(IsSave /\ HasId(Conversation(history,
                                     ConversationKey(lastCall'.message, userName)),
                        lastCall'.message.id))
          => (history' = history /\ hasMessages' = hasMessages)]_vars

\* C2 witness: the second message with the stored id differed from the stored
\* one in timestamp, envelope and cached plaintext, and the stored one stayed.
C2_Witness ==
    /\ lastCall.fn = "saveMessageToHistory"
    /\ lastCall.outcome = "exists"
    /\ \E m \in Stored(Conversation(history, lastCall.username)) :
          /\ m.id = lastCall.message.id
          /\ m.timestamp # lastCall.message.timestamp
          /\ m.encrypted # lastCall.message.encrypted
          /\ m.decrypted # lastCall.message.decrypted

\* C3: getChatHistory returns every conversation in non-decreasing timestamp
\* order, whatever the order of the saves.
C3_ReadSortedByTimestamp ==
    \A u \in Peers :
        \A i, j \in 1..Len(GetChatHistory(u)) :
            i < j => GetChatHistory(u)[i].timestamp <= GetChatHistory(u)[j].timestamp

\* C3 witness: three messages with timestamps 1 < 2 < 3 are read back in
\* that order although the one with timestamp 1 was saved last.
C3_Witness ==
    LET conv == GetChatHistory("alice")
    IN  /\ Len(conv) = 3
        /\ conv[1].timestamp = 1 /\ conv[2].timestamp = 2 /\ conv[3].timestamp = 3
        /\ lastCall.fn = "saveMessageToHistory"
        /\ lastCall.outcome = "stored"
        /\ lastCall.message = conv[1]

\* C4: no conversation exceeds the retention cap, and a save of a new id
\* into a full conversation drops exactly one message, one whose timestamp
\* is the smallest among the stored ones and the new one.
C4_RetentionCap ==
    [][/\ \A u \in DOMAIN history' : Len(history'[u]) <= RetentionCap
       /\ LET message == lastCall'.message
              key == ConversationKey(message, userName)
              old == Conversation(history, key)
              new == Conversation(history', key)
              all == Stored(old) \cup {message}
          IN  (IsSave /\ ~HasId(old, message.id)) =>
                 IF Len(old) < RetentionCap
                 THEN Stored(new) = all /\ Len(new) = Len(old) + 1
                 ELSE /\ Len(new) = RetentionCap
                      /\ \E x \in all :
                            /\ Stored(new) = all \ {x}
                            /\ \A y \in all : x.timestamp <= y.timestamp]_vars

\* C4 witness: a save into a conversation holding RetentionCap messages
\* evicted the stored message with the smallest timestamp and kept the new one.
C4_Witness ==
    LET conv == Conversation(history, "alice")
    IN  /\ lastCall.fn = "saveMessageToHistory"
        /\ lastCall.outcome = "evicted"
        /\ Len(conv) = RetentionCap
        /\ lastCall.message \in Stored(conv)
        /\ \E m \in Stored(conv) : m.timestamp < lastCall.message.timestamp


(***************************************************************************)
(* Properties of the peer session                                          *)
(***************************************************************************)

\* The session state a WebRTCManager is in, read off its fields: Closed once
\* close() left it without a peer connection or its transport is lost,
\* Connected when isConnected() holds, Negotiating while an offer, an answer
\* or a data channel is under way, Idle otherwise.
SessionState(m) ==
    IF ~m.pc THEN (IF m.wasClosed THEN "Closed" ELSE "Idle")
    ELSE IF m.conn = "failed" \/ m.dataChannel = "closed" THEN "Closed"
    ELSE IF IsConnected(m) THEN "Connected"
    ELSE IF \/ m.signaling # "stable"
            \/ m.remote.kind # "none"
            \/ m.dataChannel = "connecting"
         THEN "Negotiating"
    ELSE "Idle"

\* C5: Closed is final. The listed transitions (Idle -> Negotiating,
\* Negotiating -> Connected, Negotiating -> Idle, Negotiating -> Closed,
\* Connected -> Closed) give Closed no way out, and a session close() was
\* called on is never Negotiating or Connected afterwards.
C5_ClosedIsFinal ==
    [][\A i \in ManagerIds :
          mgrs[i].exists =>
            /\ SessionState(mgrs[i]) = "Closed" => SessionState(mgrs'[i]) = "Closed"
            /\ mgrs[i].wasClosed =>
                 SessionState(mgrs'[i]) \notin {"Negotiating", "Connected"}]_vars

\* C6: a negotiation whose offer is pending does not stay pending for ever:
\* the answer is applied or the session leaves Negotiating.
C6_NegotiationEnds ==
    \A i \in ManagerIds :
       (mgrs[i].exists /\ mgrs[i].pc /\ mgrs[i].signaling = "have-local-offer")
         ~> ~(mgrs[i].pc /\ mgrs[i].signaling = "have-local-offer")

\* A step in which manager i creates and posts a new offer.
NewOffer(i) ==
    /\ Len(offers') = Len(offers) + 1
    /\ offers'[Len(offers')].mgr = i

\* C7: when an offer is made on a session that is still negotiating, the
\* earlier negotiation is torn down first: its data channel is closed and its
\* peer connection, with the offers made on it, is gone.
C7_EarlierNegotiationTornDown ==
    [][\A i \in ManagerIds :
          (NewOffer(i) /\ SessionState(mgrs[i]) = "Negotiating") =>
            /\ mgrs'[i].orphans = 0
            /\ \A n \in 1..Len(offers) : offers[n].mgr = i => ~offers'[n].live]_vars

\* C8: an answer a session has applied is the answer to the offer that session
\* has pending, sent by the peer that offer was addressed to.
C8_AnswerMatchesOffer ==
    \A i \in ManagerIds :
       (mgrs[i].exists /\ mgrs[i].pc /\ mgrs[i].signaling = "stable"
          /\ mgrs[i].remote.kind = "answer") =>
         /\ mgrs[i].remote.neg = mgrs[i].localNeg
         /\ mgrs[i].remote.from = mgrs[i].remoteUsername

\* C9: send on a session whose data channel is not open throws and hands
\* nothing to the channel; a send that returns has handed its frame over.
C9_SendThrowsUnlessOpen ==
    [][lastSend' # lastSend =>
         /\ mgrs[webrtc].dataChannel # "open" => lastSend' = SendResult("threw", 0)
         /\ lastSend'.outcome = "returned" => lastSend'.frames = 1]_vars

\* A send threw on a session whose established channel had dropped.
C9_Witness ==
    /\ lastSend = SendResult("threw", 0)
    /\ mgrs[webrtc].dataChannel = "closed"
    /\ mgrs[webrtc].conn = "failed"


(***************************************************************************)
(* Properties of the relay connection                                      *)
(***************************************************************************)

\* C10: after the owner called disconnect(), and until the owner calls
\* connect again, no new WebSocket is opened.
C10_NoReconnectAfterDisconnect ==
    [][(disconnected /\ disconnected') => Len(sockets') = Len(sockets)]_vars


\* A step in which a reconnection is scheduled.
Scheduled == Len(timers') = Len(timers) + 1

\* A step in which a socket closes uncleanly with the attempts used up.
GivesUp ==
    /\ reconnectAttempts = maxReconnectAttempts
    /\ UNCHANGED <<reconnectAttempts, timers>>
    /\ \E i \in 1..Len(sockets) :
          /\ sockets[i].readyState # "CLOSED"
          /\ sockets[i].creds /\ ~sockets[i].opened
          /\ sockets'[i].readyState = "CLOSED"

\* C11: reconnectAttempts never exceeds maxReconnectAttempts, and once it has
\* reached it no further reconnection is scheduled.
C11_ReconnectionBounded ==
    [][/\ reconnectAttempts' <= maxReconnectAttempts
       /\ reconnectAttempts = maxReconnectAttempts => ~Scheduled]_vars

\* The fifth reconnection was made and failed too: the attempts are used up,
\* every socket is closed and no timer is pending.
C11_Witness ==
    /\ reconnectAttempts = maxReconnectAttempts
    /\ timers = <<>>
    /\ Len(sockets) >= 2
    /\ \A i \in 1..Len(sockets) : sockets[i].readyState = "CLOSED"

\* C12: the n-th reconnection scheduled since a socket last opened waits
\* n * 1000 ms, which is 1000 ms more than the one scheduled before it.
C12_LinearBackoff ==
    [][Scheduled =>
         /\ timers'[Len(timers')] = 1000 * reconnectAttempts'
         /\ reconnectAttempts' = reconnectAttempts + 1
         /\ timers'[Len(timers')] = lastDelay + 1000]_vars

\* A third reconnection in a row was scheduled, 3000 ms ahead, after the
\* second one was made.
C12_Witness ==
    /\ reconnectAttempts = 3
    /\ lastDelay = 3000
    /\ timers = <<3000>>
    /\ Len(sockets) >= 2

\* C13: when a socket closes with the attempts used up, the owner is told so
\* by something other than the onDisconnect notification of every closure.
C13_TerminalDisconnectSurfaced ==
    [][GivesUp => notified' \notin {"none", "connect", "disconnect"}]_vars

(***************************************************************************)
(* Properties of the message pipeline                                      *)
(***************************************************************************)

\* A step of the onMessage handler or of handleSendMessage.
Handled(fn, outcome) ==
    /\ lastChat' # lastChat
    /\ lastChat'.fn = fn
    /\ lastChat'.outcome = outcome

\* C14: when an inbound envelope cannot be decrypted, the envelope is still
\* appended to the history of the sender's conversation, without a
\* plaintext, and an event that says so reaches the user interface.
C14_UndecryptableKept ==
    [][Handled("onMessage", "decryptFailed") =>
          /\ \E m \in Stored(Conversation(history', lastChat'.from)) :
                 m.id = lastChat'.id /\ m.decrypted = NoPlain
          /\ lastChat'.alert # "none" \/ lastChat'.shown]_vars

\* The frame at the head of the channel is delivered.
Delivered == wire # <<>> /\ wire' = Tail(wire)

\* The plaintext inside the box of a frame.
PlaintextOf(frame) == to_string(StringToKey(frame.encrypted.ciphertext).plain)

\* C15: when a frame the local user sent over a connected session is
\* delivered, the peer's store holds that message from the local user with
\* the plaintext that was sent, and the local store holds a message from the
\* local user to the peer with that plaintext.
C15_EndToEnd ==
    [][Delivered =>
          LET frame == Head(wire).frame
              peer == Head(wire).peer
          IN  /\ \E m \in Stored(Conversation(peerHistory'[peer], Me)) :
                     /\ m.id = frame.id /\ m.from = Me
                     /\ m.decrypted = PlaintextOf(frame)
              /\ \E m \in Stored(Conversation(history', peer)) :
                     /\ m.from = Me /\ m.to = peer
                     /\ m.decrypted = PlaintextOf(frame)]_vars

\* C16: the id handleSendMessage gives a message is not the id of another
\* message of the conversation, so the store never drops a message of the
\* pipeline as a duplicate of a different one.
C16_FreshIds ==
    [][(/\ lastChat' # lastChat
        /\ lastCall'.fn = "saveMessageToHistory"
        /\ lastCall'.outcome = "exists") =>
          \A m \in Stored(Conversation(history, lastCall'.username)) :
             m.id = lastCall'.message.id => m = lastCall'.message]_vars

\* C17: when the lookup of the recipient's public key fails, nothing is
\* handed to the transport, the history stays as it was, and the user is
\* alerted.
C17_LookupFailure ==
    [][Handled("handleSendMessage", "lookupFailed") =>
          /\ wire' = wire
          /\ lastSend' = lastSend
          /\ history' = history
          /\ ~lastChat'.encrypted
          /\ lastChat'.alert # "none"]_vars

\* A send has just failed on the lookup.
C17_Witness ==
    /\ lastChat.fn = "handleSendMessage"
    /\ lastChat.outcome = "lookupFailed"
    /\ ~sending.active

\* A send of a text into an open conversation found no connected transport
\* at the guard clause.
GuardRefuses(text) ==
    /\ HandleSendMessage(text)
    /\ text # ""
    /\ ~IsConnected(mgrs[webrtc])

\* A send passed the guard clause and found the channel closed at
\* webrtc.send.
DroppedInBetween == Handled("handleSendMessage", "sendThrew")

\* Nothing went out and the history is as before.
NothingSent == wire' = wire /\ history' = history

\* C18 as stated: a send without a connected transport, at the guard clause
\* or at webrtc.send after the channel dropped, encrypts nothing, transmits
\* nothing, leaves the history unchanged and alerts the user.
C18_NotConnectedAsStated ==
    [][(GuardRefuses("hello") \/ DroppedInBetween) =>
          /\ NothingSent
          /\ ~lastChat'.encrypted
          /\ lastChat'.alert # "none"]_vars

\* C18: a send without a connected transport transmits nothing, leaves the
\* history unchanged and alerts the user; at the guard clause nothing is
\* encrypted either, while a send that finds the channel dropped at
\* webrtc.send has encrypted the message already.
C18_NotConnected ==
    [][/\ GuardRefuses("hello") =>
             /\ NothingSent
             /\ ~lastChat'.encrypted
             /\ lastChat'.alert # "none"
       /\ DroppedInBetween =>
             /\ NothingSent
             /\ lastChat'.alert # "none"]_vars

\* A send was refused at the guard clause with the alert.
C18_Witness ==
    /\ lastChat.fn = "handleSendMessage"
    /\ lastChat.outcome = "returned"
    /\ lastChat.alert = "Not connected"
    /\ currentChat # NoPeer

(***************************************************************************)
(* Properties of the outbound payloads                                     *)
(***************************************************************************)

\* The payload bodies handed to the network so far.
Bodies == {outbound[i].body : i \in 1..Len(outbound)}

\* The private key of the local user, as stored text and as bytes.
PrivateKeyTexts ==
    {JsonStringify(UserData(Me).privateKey),
     JsonStringify(StringToKey(UserData(Me).privateKey))}

\* A message text, as typed and as base64.
PlainTexts ==
    {JsonStringify(text) : text \in MessageTexts}
    \cup {JsonStringify(KeyToString(text)) : text \in MessageTexts}

\* The fields an outbound payload may have: routing fields, the signaling
\* descriptions, and ciphertext, nonce and sender public key.
PayloadFields ==
    {"type", "id", "from", "to", "timestamp", "username", "public_key",
     "offer", "answer", "candidate", "encrypted", "ciphertext", "nonce",
     "publicKey"}

\* C19: no leaf of any payload handed to the directory, the signaling
\* server, the relay or the data channel is the private key.
C19_PrivateKeyStaysLocal ==
    \A body \in Bodies : Leaves(body) \cap PrivateKeyTexts = {}

\* A registration and a message encrypted with the private key have gone out.
C19_Witness ==
    /\ RegisterRequest(UserData(Me)) \in Bodies
    /\ \E body \in Bodies :
          /\ "encrypted" \in DOMAIN body
          /\ Me \in StringToKey(body.encrypted.ciphertext).key

\* C20: no leaf of any payload is a message text, no payload has a
\* decrypted field, and every payload consists of routing fields, ciphertext,
\* nonce and sender public key.
C20_PlaintextStaysLocal ==
    \A body \in Bodies :
       /\ Leaves(body) \cap PlainTexts = {}
       /\ "decrypted" \notin FieldNames(body)
       /\ FieldNames(body) \subseteq PayloadFields

\* A message with the text "hello" has gone out on the data channel.
C20_Witness ==
    \E i \in 1..Len(outbound) :
       /\ outbound[i].channel = "dataChannel"
       /\ to_string(StringToKey(outbound[i].body.encrypted.ciphertext).plain) = "hello"

(***************************************************************************)
(* Properties of the relay registration                                    *)
(***************************************************************************)

\* The onConnect callback runs (and connect() resolves) in this step: the
\* handshake of some socket completes.
ReportsConnected ==
    \E i \in 1..Len(sockets) :
       /\ sockets[i].readyState = "CONNECTING"
       /\ sockets'[i].readyState = "OPEN"

\* C21: the relay channel reports Connected only when this.ws is open and
\* the relay has acknowledged the registration sent on it.
C21_ConnectedAfterAcknowledgement ==
    [][ReportsConnected =>
          /\ ws' # 0
          /\ sockets'[ws'].readyState = "OPEN"
          /\ sockets'[ws'].acknowledged]_vars

(***************************************************************************)
(* Properties of signaling                                                 *)
(***************************************************************************)

\* The pending items in the order p puts them in.
Reordered(items, p) == [i \in DOMAIN items |-> items[p[i]]]

\* The pending items hold at most one offer or answer.
OneDescription(items) ==
    Cardinality({i \in DOMAIN items : items[i].type # "ice-candidate"}) <= 1

\* C22: candidates are applied in any order: whatever order the pending
\* candidates and the one offer or answer arrive in, handling them leaves the
\* session in the same state, and a candidate handled twice leaves it where
\* handling it once does.
C22_CandidatesOrderIndependent ==
    \A rollback \in BOOLEAN :
       OneDescription(inbox) =>
         /\ \A p \in Permutations(DOMAIN inbox) :
               HandleAll(mgrs[webrtc], Reordered(inbox, p), rollback)
                 = HandleAll(mgrs[webrtc], inbox, rollback)
         /\ \A i \in DOMAIN inbox :
               inbox[i].type = "ice-candidate" =>
                 HandleAll(mgrs[webrtc], Append(inbox, inbox[i]), rollback)
                   = HandleAll(mgrs[webrtc], inbox, rollback)

\* The poll hands the offer of peer from to handleOffer.
OfferReceived(from, rollback) ==
    /\ inbox # <<>>
    /\ Head(inbox).type = "offer"
    /\ Head(inbox).from = from
    /\ PollSignalingMessages(rollback)

\* C23: when an offer of peer X is received, it becomes the remote
\* description of the session, the session is Negotiating with X as its
\* remote peer, and exactly one answer is posted, addressed to X.
C23_ResponderPath ==
    [][\A from \in Peers : \A rollback \in BOOLEAN :
          OfferReceived(from, rollback) =>
            /\ mgrs'[webrtc].remote =
                  [kind |-> "offer", from |-> from, neg |-> Head(inbox).neg]
            /\ SessionState(mgrs'[webrtc]) = "Negotiating"
            /\ mgrs'[webrtc].remoteUsername = from
            /\ AnswersPosted(mgrs[webrtc], from, rollback) = <<from>>]_vars

(***************************************************************************)
(* Properties of the message list                                          *)
(***************************************************************************)

\* C24: the messages on screen are in timestamp order, whatever order they
\* were sent and received in.
C24_DisplayedByTimestamp ==
    \A i, j \in DOMAIN messages :
       i < j => messages[i].timestamp <= messages[j].timestamp

(***************************************************************************)
(* Properties of logout                                                    *)
(***************************************************************************)

\* handleLogout runs: clearUserData removes the identity.
LogsOut == userName # NoUser /\ userName' = NoUser

\* C25: after logout nothing of the identity is left in local storage: the
\* identity record is gone and so is the stored conversation history.
C25_LogoutWipesStorage ==
    [][LogsOut => ~hasMessages' /\ history' = EmptyHistory]_vars

(***************************************************************************)
(* Frame properties of the history store                                   *)
(***************************************************************************)

\* The step is a save into the conversation with u that the retention cut
\* shortened by one message.
Evicts(u) ==
    /\ lastCall'.fn = "saveMessageToHistory"
    /\ lastCall'.outcome = "evicted"
    /\ lastCall'.username = u
    /\ Cardinality(Stored(Conversation(history, u))
                     \ Stored(Conversation(history', u))) = 1

\* C26: a stored message stays in its conversation, unaltered, in every step
\* that is not clearChatHistory of that conversation, clearAllChatHistory or
\* a save that evicts from that conversation.
C26_StoredMessagesKept ==
    [][\A u \in DOMAIN history :
          \/ history[u] = Conversation(history', u)
          \/ \A m \in Stored(history[u]) :
                \/ m \in Stored(Conversation(history', u))
                \/ ClearChatHistory(u)
                \/ ClearAllChatHistory
                \/ Evicts(u)]_vars

\* A message was appended to a conversation that held one already, while
\* another conversation holds messages too.
C26_Witness ==
    /\ lastCall.fn = "saveMessageToHistory"
    /\ lastCall.outcome = "stored"
    /\ Len(Conversation(history, lastCall.username)) >= 2
    /\ \E u \in DOMAIN history : u # lastCall.username /\ history[u] # <<>>

(***************************************************************************)
(* Properties of sending on the relay channel                              *)
(***************************************************************************)

\* C27: a send invoked while the socket is not open reports the failure to
\* its caller.
C27_FailedSendReported ==
    sendResult.called /\ ~sendResult.open => sendResult.threw

(***************************************************************************)
(* Properties of lib/encryption                                            *)
(***************************************************************************)

Opens(msg) ==
    CryptoBoxOpen(StringToKey(msg.encrypted.ciphertext),
                  StringToKey(msg.encrypted.nonce),
                  StringToKey(msg.encrypted.publicKey), PrivateKey(Me)).ok

\* C29: once a conversation is opened, every stored entry of it is on screen
\* at its position; an entry with cached plaintext is shown as stored, an
\* entry without is shown with the plaintext of its envelope when that can
\* be opened and with the failure text when it cannot.
C29_RestoreShowsEveryEntry ==
    currentChat # NoPeer =>
       LET stored == GetChatHistory(currentChat) IN
       /\ Len(messages) = Len(stored)
       /\ \A i \in 1..Len(stored) :
             /\ messages[i].id = stored[i].id
             /\ messages[i].encrypted = stored[i].encrypted
             /\ stored[i].decrypted # NoPlain => messages[i] = stored[i]
             /\ stored[i].decrypted = NoPlain /\ Opens(stored[i])
                  => messages[i].decrypted = "bye"
             /\ stored[i].decrypted = NoPlain /\ ~Opens(stored[i])
                  => messages[i].decrypted = FailedToDecrypt

\* A conversation is on screen with an entry that could not be decrypted
\* between an entry decrypted on load and an entry that had its plaintext.
C29_Witness ==
    /\ currentChat = "alice"
    /\ Len(messages) = 3
    /\ GetChatHistory("alice")[1].decrypted = NoPlain
    /\ messages[1].decrypted = "bye"
    /\ messages[2].decrypted = FailedToDecrypt
    /\ GetChatHistory("alice")[3].decrypted = "bye"
    /\ messages[3].decrypted = "bye"

(***************************************************************************)
(* Properties of the mount effect                                          *)
(***************************************************************************)

\* C30: a manager is installed only if the registration succeeded or
\* reported that the user already exists.
C30_NoTransportWithoutRegistration ==
    webrtc # 0 => registration \in {"ok", "alreadyExists"}

(***************************************************************************)
(* Properties of sending over the negotiated session                       *)
(***************************************************************************)

\* C31: every frame handleSendMessage put on the data channel is addressed
\* to the remote peer of the session it was sent over.
C31_SentToSessionPeer ==
    \A i \in 1..Len(wire) : wire[i].frame.to = wire[i].peer

(***************************************************************************)
(* Properties of replacing a connected manager                             *)
(***************************************************************************)

\* handleStartChat resumes after it replaced a connected manager.
ReplacementResumes == pending.kind = "startChat" /\ pending'.kind = "none"

\* C32: when handleStartChat replaced a connected manager, the offer it
\* posts is created by the manager it installs, the one the poll will hand
\* the answer and the candidates to.
C32_OfferByInstalledManager ==
    [][ReplacementResumes /\ Len(offers') > Len(offers)
          => offers'[Len(offers')].mgr = webrtc']_vars

(***************************************************************************)
(* Properties of the sockets of one ChatWebSocket                          *)
(***************************************************************************)

\* The sockets that are opening or open: their handlers are attached, so
\* each registers on onopen and dispatches the frames it gets.
LiveSockets ==
    {i \in 1..Len(sockets) : sockets[i].readyState \in {"CONNECTING", "OPEN"}}

\* C33: a ChatWebSocket has at most one opening or open WebSocket.
C33_OneLiveSocket == Cardinality(LiveSockets) <= 1

(***************************************************************************)
(* Properties of the dispatch of relay frames                              *)
(***************************************************************************)

RECURSIVE Occurrences(_, _)
\* How often handler is in a handler list.
Occurrences(handlers, handler) ==
    IF handlers = <<>> THEN 0
    ELSE (IF Head(handlers) = handler THEN 1 ELSE 0)
         + Occurrences(Tail(handlers), handler)

\* How often the frame dispatched last was due to a handler: once for each
\* registration for its type and for 'message' when it arrived.
Due(handler) ==
    IF dispatched.type = "message"
    THEN Occurrences(dispatched.handlers["message"], handler)
    ELSE Occurrences(dispatched.handlers[dispatched.type], handler)
         + Occurrences(dispatched.handlers["message"], handler)

\* C34: a frame is delivered exactly once to every handler registered for
\* its type or for 'message' when it is dispatched.
C34_DeliveredOnce ==
    dispatched.type # "none" => \A h \in HandlerIds : invoked[h] = Due(h)

(***************************************************************************)
(* Properties of the local echo                                            *)
(***************************************************************************)

\* C35: when handleSendMessage has sent a message, the echo it hands to
\* saveMessageToHistory has the id and the timestamp of the frame it put on
\* the channel.
C35_EchoMatchesFrame ==
    [][Handled("handleSendMessage", "sent") =>
          /\ lastCall'.message.id = wire'[Len(wire')].frame.id
          /\ lastCall'.message.timestamp = wire'[Len(wire')].frame.timestamp]_vars

(***************************************************************************)
(* Properties of the order signaling items are applied in                  *)
(***************************************************************************)

\* C36: the items are applied in the order the directory returned them: an
\* item of a later response is not applied before an item of an earlier one.
C36_AppliedInOrder ==
    \A i \in 1..Len(applied) : \A j \in (i + 1)..Len(applied) :
       applied[i][1] <= applied[j][1]

(***************************************************************************)
(* Properties of the echo of a failed send                                 *)
(***************************************************************************)

\* C37: handleSendMessage changes the history or the displayed list only in
\* a step in which the data channel took the frame; when webrtc.send throws
\* both stay as they were.
C37_EchoOnlyIfSent ==
    [][lastChat'.fn = "handleSendMessage" /\ sending.active /\ ~sending'.active =>
          /\ history' # history \/ messages' # messages =>
                /\ lastSend'.outcome = "returned"
                /\ lastSend'.frames = 1
                /\ Len(wire') = Len(wire) + 1
          /\ lastSend'.outcome = "threw" =>
                history' = history /\ messages' = messages /\ wire' = wire]_vars

\* webrtc.send threw in handleSendMessage, the channel having dropped after
\* the connection check.
C37_Witness ==
    /\ lastChat.fn = "handleSendMessage"
    /\ lastChat.outcome = "sendThrew"
    /\ lastSend.outcome = "threw"
    /\ ~sending.active

(***************************************************************************)
(* Properties of the conversation an inbound message is stored in          *)
(***************************************************************************)

\* C38: a message the onMessage handler stores declares the remote peer of
\* the session as its sender and the local user as its addressee.
C38_StoredUnderSessionPeer ==
    [][Handled("onMessage", "stored") =>
          /\ lastCall'.message.from = mgrs[webrtc].remoteUsername
          /\ lastCall'.message.to = Me]_vars

\* C39: once the chat component is torn down, the manager that was installed
\* has neither a peer connection nor a data channel left.
C39_SessionDisposed ==
    ~isMounted /\ webrtc # 0 =>
        ~mgrs[webrtc].pc /\ mgrs[webrtc].dataChannel = "null"

====
